---------------------------- MODULE Spec2Model ----------------------------
(***************************************************************************)
(* Model of the Hyperliquid data collector.                                *)
(*                                                                         *)
(* Part I   the venue client's rate limiter (src/src/hyperliquid_api.py),  *)
(*          the wallet scan that drives it (src/src/position_scanner.py),  *)
(*          and the two components that post to the info endpoint without  *)
(*          the client (src/src/wallet_discovery.py, src/src/market_data.py)*)
(* Part II  the liquidation aggregator (src/src/liquidation_aggregator.py) *)
(* Part III what a scan makes of the venue's answers: decoding, filtering, *)
(*          levels, error count and the scan lock                          *)
(*          (src/src/hyperliquid_api.py, src/src/position_scanner.py)      *)
(* Part IV  the historical store and its retention maintenance             *)
(*          (src/src/historical_storage.py, src/scripts/db_maintenance.py) *)
(* Part V   the rows of the store, their cluster documents and the         *)
(*          compression migration (src/src/historical_storage.py,          *)
(*          src/scripts/migrate_compress.py)                               *)
(* Part VI  the collector's cycle and its loop (src/collector.py)          *)
(* Part VII the retry wrappers (src/src/retry.py)                          *)
(*                                                                         *)
(* Time is counted in ticks of 50 ms.  Tasks of one client are anonymous:  *)
(* the client's state counts the tasks in each phase of _request.          *)
(* Prices are integers (price units), sizes are whole dollars; the         *)
(* aggregator's arithmetic is modelled exactly, on rationals whose         *)
(* denominators the chosen reference prices cancel.                        *)
(***************************************************************************)
EXTENDS Integers, Sequences, FiniteSets, TLC

\* ------------------------------------------------------------------ bounds
MaxTime == 4
MaxWallets == 11
MaxCalls == 12

\* --------------------------------------------------------------- constants
\* config.API_REQUESTS_PER_SECOND
API_REQUESTS_PER_SECOND == 10
\* 0.1 s, in ticks: "if elapsed < 0.1" / "asyncio.sleep(0.1 - elapsed)"
MinSpacing == 2
\* 0.1 s, in ticks: the scanner's "await asyncio.sleep(0.1)" between batches
BatchSleep == 2
\* 0.1 s, in ticks: the backfill's "await asyncio.sleep(0.1)" after each coin
BackfillSleep == 2
\* 1 s, in ticks
Window == 10 * MinSpacing
\* the clock when the process starts: far from _last_request_time = 0
StartTime == MinSpacing

Min(a, b) == IF a < b THEN a ELSE b

\* Scanner s owns the client of its name (PositionScanner.__aenter__ builds
\* its own HyperliquidAPI); the standalone client is a HyperliquidAPI that
\* tasks call directly.
Scanners == {"scanner1", "scanner2"}
Standalone == "standalone"
Clients == Scanners \cup {Standalone}
Times == 0..(MaxTime + MinSpacing)

VARIABLES
    now,        \* time.time(), in ticks
    api,        \* api[c]: the state of HyperliquidAPI instance c
    sent,       \* sent[c][t]: info requests client c posted at time t
    outcome,    \* outcome[c]: how the latest finished request of c ended
    calls,      \* number of direct calls made on the standalone client
    scanner,    \* scanner[s]: the position of scan_wallets on scanner s
    backfill,   \* WalletDiscovery.backfill_from_recent_trades
    fetcher,    \* MarketDataFetcher._post
    current_price,  \* aggregate_levels' current_price
    levels,         \* aggregate_levels' levels (one coin)
    liq_map,        \* the LiquidationMap aggregate_levels returned, or NoMap
    scan_lock,          \* PositionScanner._scan_lock
    scan_call,          \* scan_call[k]: the k-th call of scan_wallets on one scanner
    last_scan_result,   \* PositionScanner.last_scan_result, or NoResult
    clock,              \* the UTC wall clock, in minutes
    snapshots,          \* the rows of table snapshots
    price_history,      \* the rows of table price_history
    liquidation_events, \* the rows of table liquidation_events
    stored,             \* every snapshots row a collection cycle ever stored
    before,             \* the tables as the latest maintenance run found them
    maintained,         \* the latest step on the store was a live maintenance run
    report,             \* what the latest step printed, if it was a maintenance run
    snapshot_rows,      \* table snapshots: timestamp, coin, clusters_json
    price_rows,         \* table price_history: timestamp, coin, price
    written,            \* written[k]: what store_snapshot last wrote for key k, and
                        \* whether it had written the key before
    priced,             \* priced[k]: the price store_prices last wrote for key k
    migration,          \* the latest step, if it was a compression migration
    wall,               \* datetime.now(timezone.utc), in seconds
    registry_file,      \* the wallet registry file: how many addresses, or NoFile
    loop,               \* run_continuous or run_once: where it is
    cycle,              \* run_collection_cycle: where the current cycle is
    cycle_rows,         \* the snapshots rows the cycles stored
    maps_file,          \* the latest-snapshot file: the maps save_maps wrote
    past,               \* the cycles that ended, in their order
    retry,              \* one call through retry_async or retry_sync
    seen_clock,         \* datetime.now() of the discovery process, in minutes
    discovery,          \* the WalletDiscovery instance
    wallets_json,       \* the wallet cache file, or NoWalletsFile
    added,              \* how often add_wallet was called for the spellings
                        \* of each address: ever (calls), as the instance
                        \* accounts for (held), as the file does (saved)
    ws,                 \* start_websocket_discovery: where it is
    validation,         \* the latest call of a DataValidator method
    batches,            \* one call of scan_wallets, batch by batch
    migrate,            \* one run of migrate_compress, batch by batch
    collect             \* run_continuous over the wallet registry, cycle by cycle

rate_vars == <<now, api, sent, outcome, calls, scanner, backfill, fetcher>>
agg_vars == <<current_price, levels, liq_map>>
data_vars == <<scan_lock, scan_call, last_scan_result>>
store_vars == <<clock, snapshots, price_history, liquidation_events,
                stored, before, maintained, report>>
doc_vars == <<snapshot_rows, price_rows, written, priced, migration>>
cycle_vars == <<wall, registry_file, loop, cycle, cycle_rows, maps_file, past>>
retry_vars == <<retry>>
discovery_vars == <<seen_clock, discovery, wallets_json, added, ws>>
validation_vars == <<validation>>
batch_vars == <<batches>>
migrate_vars == <<migrate>>
collect_vars == <<collect>>
late_vars ==
    <<discovery_vars, validation_vars, batch_vars, migrate_vars, collect_vars>>
more_vars == <<doc_vars, cycle_vars, retry_vars, late_vars>>
vars == <<now, api, sent, outcome, calls, scanner, backfill, fetcher,
          current_price, levels, liq_map,
          scan_lock, scan_call, last_scan_result,
          clock, snapshots, price_history, liquidation_events,
          stored, before, maintained, report, more_vars>>

\* =========================================================================
\* Part I: the rate limiter
\* =========================================================================

\* HyperliquidAPI.__init__
NewAPI ==
    [permits |-> API_REQUESTS_PER_SECOND,  \* _rate_limiter's value
     waiters |-> 0,                        \* tasks blocked in acquire
     sleepers |-> [t \in Times |-> 0],     \* tasks in sleep(0.1 - elapsed), by wake time
     in_post |-> 0,                        \* tasks whose post is awaiting its response
     last_request_time |-> 0]

\* tasks of client record a that hold a permit
Held(a) ==
    LET RECURSIVE Sum(_)
        Sum(t) == IF t < 0 THEN 0 ELSE a.sleepers[t] + Sum(t - 1)
    IN  a.in_post + Sum(MaxTime + MinSpacing)

\* "async with self._rate_limiter" entered without waiting
CanAcquire(a) == a.waiters = 0 /\ a.permits > 0

\* lines 67-71 for k tasks that have just acquired a permit at time t:
\* each sleeps until 0.1 s after _last_request_time, or posts at once
MustSleep(a, t) == t - a.last_request_time < MinSpacing

AfterAcquire(a, k, t) ==
    LET elapsed == t - a.last_request_time
        wake == t + (MinSpacing - elapsed)
    IN  IF MustSleep(a, t)
        THEN [a EXCEPT !.permits = @ - k,
                       !.sleepers = [@ EXCEPT ![wake] = @ + k]]
        ELSE [a EXCEPT !.permits = @ - k, !.in_post = @ + k]

\* requests posted at time t when k tasks acquire a permit
PostedOnAcquire(a, k, t) == IF MustSleep(a, t) THEN 0 ELSE k

\* k tasks call _request at time t: as many as there are permits enter, the
\* others wait in acquire
Admissible(a, k) == IF CanAcquire(a) THEN Min(k, a.permits) ELSE 0

Enter(a, k, t) ==
    LET n == Admissible(a, k)
        b == AfterAcquire(a, n, t)
    IN  [b EXCEPT !.waiters = @ + (k - n)]

\* leaving "async with self._rate_limiter": the permit is given back
ReleaseLeak(a) == a
Release(a) == [a EXCEPT !.permits = @ + 1]

Record(c, k) == sent' = [sent EXCEPT ![c][now] = @ + k]

\* what a finished request of client c means to the scanner that owns c:
\* one task of the gathered batch is done; after the last one the results
\* are processed and the scan sleeps 0.1 s
TaskDone(c) ==
    IF c \in Scanners /\ scanner[c].pc = "gather"
    THEN scanner' = [scanner EXCEPT ![c] =
            IF @.out = 1
            THEN [@ EXCEPT !.out = 0, !.pc = "sleep", !.wake = now + BatchSleep]
            ELSE [@ EXCEPT !.out = @ - 1]]
    ELSE UNCHANGED scanner

\* a waiting task is woken by a release and acquires the permit
Admit(c) ==
    /\ api[c].waiters > 0
    /\ api[c].permits > 0
    /\ api' = [api EXCEPT ![c] =
            AfterAcquire([@ EXCEPT !.waiters = @ - 1], 1, now)]
    /\ Record(c, PostedOnAcquire(api[c], 1, now))
    /\ UNCHANGED <<now, outcome, calls, scanner, backfill, fetcher, agg_vars, data_vars, store_vars, more_vars>>

\* a task's sleep(0.1 - elapsed) is over: it posts
Wake(c) ==
    \E t \in Times :
        /\ t <= now
        /\ api[c].sleepers[t] > 0
        /\ api' = [api EXCEPT ![c].sleepers[t] = @ - 1, ![c].in_post = @ + 1]
        /\ Record(c, 1)
        /\ UNCHANGED <<now, outcome, calls, scanner, backfill, fetcher, agg_vars, data_vars, store_vars, more_vars>>

\* the response of a posted request arrives, with status 200 ("ok") or with
\* another status ("status": _request raises); line 76 runs in both cases
Respond(c) ==
    /\ api[c].in_post > 0
    /\ \E o \in {"ok", "status"} : outcome' = [outcome EXCEPT ![c] = o]
    /\ api' = [api EXCEPT ![c] =
            Release([@ EXCEPT !.in_post = @ - 1, !.last_request_time = now])]
    /\ TaskDone(c)
    /\ UNCHANGED <<now, sent, calls, backfill, fetcher, agg_vars, data_vars, store_vars, more_vars>>

\* session.post raises (connection error, timeout): line 76 is not reached
NetworkError(c) ==
    /\ api[c].in_post > 0
    /\ outcome' = [outcome EXCEPT ![c] = "network"]
    /\ api' = [api EXCEPT ![c] = Release([@ EXCEPT !.in_post = @ - 1])]
    /\ TaskDone(c)
    /\ UNCHANGED <<now, sent, calls, backfill, fetcher, agg_vars, data_vars, store_vars, more_vars>>

\* a task calls a method of the standalone client (get_all_mids, ...)
Call ==
    /\ calls < MaxCalls
    /\ calls' = calls + 1
    /\ api' = [api EXCEPT ![Standalone] = Enter(@, 1, now)]
    /\ Record(Standalone,
              PostedOnAcquire(api[Standalone], Admissible(api[Standalone], 1), now))
    /\ UNCHANGED <<now, outcome, scanner, backfill, fetcher, agg_vars, data_vars, store_vars, more_vars>>

\* -------------------------------------------------------------- the scan
NewScanner == [pc |-> "idle", left |-> 0, out |-> 0, wake |-> 0]

\* lines 97-102: the next batch of at most batch_size wallets is gathered;
\* every task of the batch runs to its first suspension inside _request
StartBatch(s, left) ==
    LET batch == Min(API_REQUESTS_PER_SECOND, left)
    IN  /\ scanner' = [scanner EXCEPT ![s] =
                [pc |-> "gather", left |-> left - batch, out |-> batch, wake |-> 0]]
        /\ api' = [api EXCEPT ![s] = Enter(@, batch, now)]
        /\ Record(s, PostedOnAcquire(api[s], Admissible(api[s], batch), now))

\* scan_wallets(wallets) with n wallets, n drawn from Sizes
ScanWallets(s, Sizes) ==
    /\ scanner[s].pc = "idle"
    /\ \E n \in Sizes :
        IF n = 0
        THEN /\ scanner' = [scanner EXCEPT ![s].pc = "done"]
             /\ UNCHANGED <<api, sent>>
        ELSE StartBatch(s, n)
    /\ UNCHANGED <<now, outcome, calls, backfill, fetcher, agg_vars, data_vars, store_vars, more_vars>>

\* line 136 is over: the loop goes on with the next batch, or the scan ends
BatchSleepOver(s) ==
    /\ scanner[s].pc = "sleep"
    /\ scanner[s].wake <= now
    /\ IF scanner[s].left = 0
       THEN /\ scanner' = [scanner EXCEPT ![s].pc = "done"]
            /\ UNCHANGED <<api, sent>>
       ELSE StartBatch(s, scanner[s].left)
    /\ UNCHANGED <<now, outcome, calls, backfill, fetcher, agg_vars, data_vars, store_vars, more_vars>>

\* ------------------------------------------- requests made without a client
\* backfill_from_recent_trades: one post per coin on a session of its own,
\* then sleep 0.1 s
BackfillCoins == 2

BackfillStart ==
    /\ backfill.pc = "idle"
    /\ backfill' = [pc |-> "post", left |-> BackfillCoins - 1, wake |-> 0]
    /\ UNCHANGED <<now, api, sent, outcome, calls, scanner, fetcher, agg_vars, data_vars, store_vars, more_vars>>

BackfillResponse ==
    /\ backfill.pc = "post"
    /\ backfill' = [backfill EXCEPT !.pc = "sleep", !.wake = now + BackfillSleep]
    /\ UNCHANGED <<now, api, sent, outcome, calls, scanner, fetcher, agg_vars, data_vars, store_vars, more_vars>>

BackfillNext ==
    /\ backfill.pc = "sleep"
    /\ backfill.wake <= now
    /\ backfill' = IF backfill.left = 0
                   THEN [backfill EXCEPT !.pc = "done"]
                   ELSE [backfill EXCEPT !.pc = "post", !.left = @ - 1]
    /\ UNCHANGED <<now, api, sent, outcome, calls, scanner, fetcher, agg_vars, data_vars, store_vars, more_vars>>

\* the post raises: the error is printed and the loop goes on with the next
\* coin, without the sleep
BackfillError ==
    /\ backfill.pc = "post"
    /\ backfill' = IF backfill.left = 0
                   THEN [backfill EXCEPT !.pc = "done"]
                   ELSE [backfill EXCEPT !.left = @ - 1]
    /\ UNCHANGED <<now, api, sent, outcome, calls, scanner, fetcher, agg_vars, data_vars, store_vars, more_vars>>

\* MarketDataFetcher._post: a post on the fetcher's own session
FetcherPost ==
    /\ fetcher = "idle"
    /\ fetcher' = "post"
    /\ UNCHANGED <<now, api, sent, outcome, calls, scanner, backfill, agg_vars, data_vars, store_vars, more_vars>>

FetcherResponse ==
    /\ fetcher = "post"
    /\ fetcher' = "done"
    /\ UNCHANGED <<now, api, sent, outcome, calls, scanner, backfill, agg_vars, data_vars, store_vars, more_vars>>

\* ------------------------------------------------------------------ time
\* a timer that is due fires before the clock moves on
TimerDue ==
    \/ \E c \in Clients : \E t \in Times : t <= now /\ api[c].sleepers[t] > 0
    \/ \E s \in Scanners : scanner[s].pc = "sleep" /\ scanner[s].wake <= now
    \/ backfill.pc = "sleep" /\ backfill.wake <= now

Tick ==
    /\ now < MaxTime
    /\ ~TimerDue
    /\ now' = now + 1
    /\ UNCHANGED <<api, sent, outcome, calls, scanner, backfill, fetcher, agg_vars, data_vars, store_vars, more_vars>>

NoMap == [coin |-> "none"]

\* ------------------------------------ the other parts before they are used
\* the calls of scan_wallets made on one scanner
MaxScanCalls == 2
Callers == 1..MaxScanCalls

\* the assets positions are drawn from
PositionCoins == {"BTC", "ETH"}

\* asyncio.Lock(): not locked, nobody waiting
NewLock == [locked |-> FALSE, waiters |-> <<>>]

\* the locals of scan_wallets as lines 84-87 set them
NewAccumulator ==
    [all_positions |-> <<>>,
     positions_by_coin |-> [c \in PositionCoins |-> <<>>],
     liquidation_levels |-> <<>>,
     errors |-> 0]

NoResult == [errors |-> -1]

\* a call of scan_wallets that was not made yet
NewScanCall ==
    [pc |-> "idle",          \* idle, waiting, gather, sleep, returned, aborted
     total |-> 0,            \* len(wallet_list); the wallets are 1..total
     i |-> 0,                \* the loop variable of line 97
     raw |-> <<>>,           \* raw[w]: what the venue answered for wallet w
     acc |-> NewAccumulator, \* all_positions, positions_by_coin, levels, errors
     result |-> NoResult,    \* the ScanResult returned to the caller
     waited |-> FALSE]       \* the call had to wait for the scan lock

InitDataIdle ==
    /\ scan_lock = NewLock
    /\ scan_call = [k \in Callers |-> NewScanCall]
    /\ last_scan_result = NoResult

\* the clock when the store is created
StartClock == 0
NoTables == [snapshots |-> {}, price_history |-> {}, liquidation_events |-> {}]
\* no maintenance run has printed anything
NoReport == [mode |-> "none"]

\* HistoricalStorage._init_db on a new file: three empty tables
InitStoreIdle ==
    /\ clock = StartClock
    /\ snapshots = {}
    /\ price_history = {}
    /\ liquidation_events = {}
    /\ stored = {}
    /\ before = NoTables
    /\ maintained = FALSE
    /\ report = NoReport

\* the keys of the rows: timestamps are texts in their order, assets are names
DocStamps == 1..2
DocCoins == {"BTC", "ETH"}
DocKeys == DocStamps \X DocCoins
NotWritten == [written |-> FALSE]
NoMigration == [mode |-> "none", before |-> {}, outcome |-> "none"]

\* the rows of a new store: none, and no key was written
InitDocIdle ==
    /\ snapshot_rows = {}
    /\ price_rows = {}
    /\ written = [k \in DocKeys |-> NotWritten]
    /\ priced = [k \in DocKeys |-> 0]
    /\ migration = NoMigration

\* there is no registry file
NoFile == -1
\* a cycle that did not start
NewCycle ==
    [pc |-> "none",     \* the step the cycle is at
     n |-> 0,           \* cycle_count
     timestamp |-> 0,   \* the timestamp of line 35
     seen |-> NoFile,   \* the registry file as load_from_file found it
     known |-> 0,       \* len(discovery.active_wallets)
     assets |-> 0,      \* how many assets the backfill was given
     wallets |-> 0,     \* len(wallets)
     levels |-> {},     \* the assets scan_result.liquidation_levels has levels for
     prices |-> <<>>,   \* prices
     maps |-> {},       \* liq_maps_dict
     waited |-> FALSE,  \* the cycle has waited a second for the network
     trace |-> <<>>]    \* the steps the cycle finished
NewLoop ==
    [pc |-> "off", mode |-> "none", interval |-> 0, sleep |-> 0,
     cycle_count |-> 0, interrupted |-> FALSE]

\* before the collector is started
InitCycleIdle ==
    /\ wall = 0
    /\ registry_file = NoFile
    /\ loop = NewLoop
    /\ cycle = NewCycle
    /\ cycle_rows = {}
    /\ maps_file = {}
    /\ past = <<>>

\* no exception
NoException == [kind |-> "none", attempt |-> 0]
\* a wrapped function that was not called yet
NewRetry ==
    [pc |-> "idle",         \* idle, calling, sleeping, returned, raised
     wrapper |-> "none",
     max_attempts |-> 0,
     policy |-> [initial_delay |-> 0, max_delay |-> 0, exponential_base |-> 0],
     attempt |-> 0,         \* the loop variable
     delay |-> 0,           \* delay
     last_exception |-> NoException,
     invocations |-> 0,     \* how often the wrapped function was invoked
     outcomes |-> <<>>,     \* what each invocation did
     exceptions |-> {},     \* the exceptions tuple of the decorator
     thrown |-> <<>>,       \* the exception object of each invocation
     waits |-> <<>>,        \* the sleeps, in seconds
     result |-> "none",     \* what the wrapper returned
     raised |-> NoException]    \* what the wrapper raised

InitRetryIdle == retry = NewRetry

\* a map without keys
EmptyMap == [a \in {} |-> 0]
\* WalletDiscovery.__init__
NewDiscovery ==
    [active_wallets |-> {},
     wallet_last_seen |-> EmptyMap,
     wallet_trade_count |-> EmptyMap,   \* a key that is absent counts 0
     running |-> FALSE,                 \* _running
     returned |-> [none |-> TRUE]]      \* what the latest method call returned
\* a method returned None
ReturnedNone == [none |-> TRUE]
\* there is no wallet cache file
NoWalletsFile == [exists |-> FALSE]
\* the listener before start_websocket_discovery is called
NewListener ==
    [pc |-> "idle",     \* idle, connecting, subscribing, listening, except,
                        \* returned, raised
     connects |-> 0,    \* how often websockets.connect was called
     subscribed |-> 0,  \* the subscriptions sent on the current connection
     frames |-> 0,      \* the frames processed on the current connection
     lost |-> "none",   \* how the latest connection was lost
     streak |-> 0,      \* the reconnect attempts since a connection was made
     delays |-> <<>>,   \* the sleep before each reconnect attempt: the
                        \* attempt's number in its streak, the seconds slept
     early |-> FALSE,   \* a frame was processed before every subscription was sent
     raised |-> "none"] \* the exception that ended the coroutine

InitDiscoveryIdle ==
    /\ seen_clock = 0
    /\ discovery = NewDiscovery
    /\ wallets_json = NoWalletsFile
    /\ added = [calls |-> EmptyMap, held |-> EmptyMap, saved |-> EmptyMap]
    /\ ws = NewListener

\* no validator was called
NotValidated == [call |-> "none"]
InitValidationIdle == validation = NotValidated

\* scan_wallets was not called
NewBatches ==
    [pc |-> "idle",     \* idle, gather, sleep, returned
     size |-> 0,        \* len(wallets)
     total |-> 0,       \* total = len(wallet_list); the list is 1..total
     i |-> 0,           \* the loop variable of line 97
     out |-> 0,         \* the queries of the gathered batch that did not end
     since |-> 0,       \* ticks since the sleep of line 136 began
     log |-> <<>>,      \* the batches gathered: first and last wallet
     early |-> FALSE,   \* a batch was gathered before the one before it had
                        \* ended and the sleep after it was over
     result |-> [total_wallets_scanned |-> -1]]
InitBatchesIdle == batches = NewBatches

\* no run of migrate_compress yet
NewMigrate ==
    [pc |-> "idle",     \* idle, batching, returned
     dry_run |-> FALSE,
     batch_size |-> 0,
     uncompressed_count |-> 0,
     processed |-> 0,
     errors |-> 0,
     selects |-> 0,     \* SELECTs of the batch loop, counted up to MaxSelects
     odd |-> FALSE,     \* whether the number of SELECTs is odd
     vacuumed |-> FALSE]

InitMigrateIdle == migrate = NewMigrate

\* run_continuous was not started
NewCollect ==
    [pc |-> "off",      \* off, load, backfill, select, sleep
     interval |-> 0,    \* interval_seconds, in minutes
     asked |-> FALSE,   \* the cycle asked the venue for recent trades
     wallets |-> {}]    \* wallets of line 50

InitCollectIdle == collect = NewCollect

InitLateIdle ==
    /\ InitDiscoveryIdle
    /\ InitValidationIdle
    /\ InitBatchesIdle
    /\ InitMigrateIdle
    /\ InitCollectIdle

InitMoreIdle == InitDocIdle /\ InitCycleIdle /\ InitRetryIdle /\ InitLateIdle

InitRate ==
    /\ now = StartTime
    /\ api = [c \in Clients |-> NewAPI]
    /\ sent = [c \in Clients |-> [t \in 0..MaxTime |-> 0]]
    /\ outcome = [c \in Clients |-> "none"]
    /\ calls = 0
    /\ scanner = [s \in Scanners |-> NewScanner]
    /\ backfill = [pc |-> "idle", left |-> 0, wake |-> 0]
    /\ fetcher = "idle"

InitAggIdle ==
    /\ current_price = 0
    /\ levels = <<>>
    /\ liq_map = NoMap

\* the process before any request, any scan and any stored row
Init == InitRate /\ InitAggIdle /\ InitDataIdle /\ InitStoreIdle /\ InitMoreIdle

\* one client and the tasks that call it
NextClient ==
    \/ Call
    \/ Admit(Standalone)
    \/ Wake(Standalone)
    \/ Respond(Standalone)
    \/ NetworkError(Standalone)
    \/ Tick

SpecClient == Init /\ [][NextClient]_vars

\* A batch starts 0.1 s or more after the latest response of the batch
\* before it, so no task of a scan finds elapsed < 0.1 and none sleeps in
\* _request: Wake is no step of a scan.
ScanNeverSleeps ==
    \A s \in Scanners : \A t \in Times : api[s].sleepers[t] = 0

\* one scanner and its client
NextScan ==
    \/ ScanWallets("scanner1", 0..MaxWallets)
    \/ BatchSleepOver("scanner1")
    \/ Respond("scanner1")
    \/ NetworkError("scanner1")
    \/ Tick

SpecScan == Init /\ [][NextScan]_vars

\* the components of one process that post to the info endpoint: two
\* scanners, the wallet backfill and the market-data fetcher
ProcessScanSizes == {1, API_REQUESTS_PER_SECOND}

NextProcess ==
    \/ \E s \in Scanners : ScanWallets(s, ProcessScanSizes)
    \/ \E s \in Scanners : BatchSleepOver(s)
    \/ \E s \in Scanners : Respond(s)
    \/ \E s \in Scanners : NetworkError(s)
    \/ BackfillStart
    \/ BackfillResponse
    \/ BackfillNext
    \/ BackfillError
    \/ FetcherPost
    \/ FetcherResponse
    \/ Tick

SpecProcess == Init /\ [][NextProcess]_vars

\* =========================================================================
\* Part II: the liquidation aggregator
\* =========================================================================
\* Only the fields of a level and of a cluster that bucketing, merging,
\* ordering and the totals read are kept: side, price and size of a level;
\* side, price range, centre, total and count of a cluster.  Cluster prices
\* are in fine units, Fine to one price unit, which makes the bounds and
\* the centre of every bucket of every integer reference price whole numbers.

\* bounds
MaxLevels == 4

\* 100 / config.PRICE_BUCKET_PERCENT (0.1): buckets per unit of relative price
BucketScale == 1000
\* 100 / config.CLUSTER_MERGE_PERCENT (0.5)
MergeScale == 200
\* config.MIN_CLUSTER_SIZE_USD
MIN_CLUSTER_SIZE_USD == 100000
\* "if total_size < 10000: continue"
DustFloor == 10000
Fine == 2 * BucketScale

RefPrices == {0, 2000, 4000}
LevelPrices == {1981, 1995, 1999, 2001, 2003, 2013, 2031}
LevelSizes == {6000, 50000}
Sides == {"long", "short"}
LevelSet == [price : LevelPrices, size_usd : LevelSizes, side : Sides]

NoCluster == [side |-> "none"]

\* Python's int(n / d) for d > 0: rounds toward zero
Trunc(n, d) == IF n >= 0 THEN n \div d ELSE -((-n) \div d)

\* _price_to_bucket
price_to_bucket(price, reference_price) ==
    IF reference_price <= 0
    THEN 0
    ELSE Trunc((price - reference_price) * BucketScale, reference_price)

\* _bucket_to_price_range, in fine units
bucket_to_price_range(bucket, reference_price) ==
    [low |-> 2 * reference_price * (BucketScale + bucket),
     high |-> 2 * reference_price * (BucketScale + bucket + 1)]

RECURSIVE SumSize(_)
SumSize(ls) == IF ls = <<>> THEN 0 ELSE Head(ls).size_usd + SumSize(Tail(ls))

RECURSIVE SumTotal(_)
SumTotal(cs) == IF cs = <<>> THEN 0 ELSE Head(cs).total_size_usd + SumTotal(Tail(cs))

\* the keys of the buckets dict, in the order of their insertion
RECURSIVE BucketKeys(_, _, _)
BucketKeys(ls, reference_price, seen) ==
    IF ls = <<>> THEN <<>>
    ELSE LET b == price_to_bucket(Head(ls).price, reference_price)
         IN  IF b \in seen
             THEN BucketKeys(Tail(ls), reference_price, seen)
             ELSE <<b>> \o BucketKeys(Tail(ls), reference_price, seen \cup {b})

\* buckets[b]
BucketLevels(ls, reference_price, b) ==
    SelectSeq(ls, LAMBDA l : price_to_bucket(l.price, reference_price) = b)

\* the $10k floor of a bucket
TinyCluster(total_size) == total_size < DustFloor

\* lines 166-186: the clusters of the buckets that pass the floor
RECURSIVE ClustersOf(_, _, _, _)
ClustersOf(keys, ls, reference_price, side) ==
    IF keys = <<>> THEN <<>>
    ELSE LET bucket_levels == BucketLevels(ls, reference_price, Head(keys))
             total_size == SumSize(bucket_levels)
             range == bucket_to_price_range(Head(keys), reference_price)
             rest == ClustersOf(Tail(keys), ls, reference_price, side)
         IN  IF TinyCluster(total_size)
             THEN rest
             ELSE <<[side |-> side,
                     price_low |-> range.low,
                     price_high |-> range.high,
                     price_center |-> (range.low + range.high) \div 2,
                     total_size_usd |-> total_size,
                     position_count |-> Len(bucket_levels)]>> \o rest

\* list.sort(key): stable, ascending in sign * price_center
RECURSIVE InsertSorted(_, _, _)
InsertSorted(sorted, c, sign) ==
    IF sorted = <<>> THEN <<c>>
    ELSE IF sign * Head(sorted).price_center <= sign * c.price_center
         THEN <<Head(sorted)>> \o InsertSorted(Tail(sorted), c, sign)
         ELSE <<c>> \o sorted

RECURSIVE SortClusters(_, _)
SortClusters(cs, sign) ==
    IF cs = <<>> THEN <<>>
    ELSE InsertSorted(SortClusters(SubSeq(cs, 1, Len(cs) - 1), sign), cs[Len(cs)], sign)

\* lines 209-215; the centre of a cluster of positive prices is positive
should_merge_center_gap(current, next_cluster) ==
    /\ (next_cluster.price_center - current.price_center) * MergeScale < current.price_center
    /\ current.total_size_usd < MIN_CLUSTER_SIZE_USD
    /\ next_cluster.total_size_usd < MIN_CLUSTER_SIZE_USD

should_merge_any_current(current, next_cluster) ==
    /\ (next_cluster.price_low - current.price_high) * MergeScale < current.price_center
    /\ next_cluster.total_size_usd < MIN_CLUSTER_SIZE_USD

should_merge(current, next_cluster) ==
    /\ (next_cluster.price_low - current.price_high) * MergeScale < current.price_center
    /\ current.total_size_usd < MIN_CLUSTER_SIZE_USD
    /\ next_cluster.total_size_usd < MIN_CLUSTER_SIZE_USD

\* lines 219-232
MergeTwoKeepsTotal(current, next_cluster) ==
    [side |-> current.side,
     price_low |-> current.price_low,
     price_high |-> next_cluster.price_high,
     price_center |-> (current.price_low + next_cluster.price_high) \div 2,
     total_size_usd |-> current.total_size_usd,
     position_count |-> current.position_count + next_cluster.position_count]

MergeTwoKeepsHigh(current, next_cluster) ==
    [side |-> current.side,
     price_low |-> current.price_low,
     price_high |-> current.price_high,
     price_center |-> (current.price_low + current.price_high) \div 2,
     total_size_usd |-> current.total_size_usd + next_cluster.total_size_usd,
     position_count |-> current.position_count + next_cluster.position_count]

MergeTwo(current, next_cluster) ==
    [side |-> current.side,
     price_low |-> current.price_low,
     price_high |-> next_cluster.price_high,
     price_center |-> (current.price_low + next_cluster.price_high) \div 2,
     total_size_usd |-> current.total_size_usd + next_cluster.total_size_usd,
     position_count |-> current.position_count + next_cluster.position_count]

\* the loop of lines 207-237
RECURSIVE MergeLoop(_, _, _)
MergeLoop(merged, current, rest) ==
    IF rest = <<>> THEN Append(merged, current)
    ELSE IF should_merge(current, Head(rest))
         THEN MergeLoop(merged, MergeTwo(current, Head(rest)), Tail(rest))
         ELSE MergeLoop(Append(merged, current), Head(rest), Tail(rest))

\* _merge_adjacent_clusters
merge_adjacent_clusters(clusters) ==
    IF Len(clusters) < 2 THEN clusters
    ELSE LET sorted == SortClusters(clusters, 1)
         IN  MergeLoop(<<>>, Head(sorted), Tail(sorted))

\* the candidate clusters of one side, before the merge
CandidateClusters(ls, reference_price, side) ==
    ClustersOf(BucketKeys(ls, reference_price, {}), ls, reference_price, side)

\* _aggregate_to_clusters
aggregate_to_clusters(ls, reference_price, side) ==
    IF ls = <<>> THEN <<>>
    ELSE merge_adjacent_clusters(CandidateClusters(ls, reference_price, side))

\* lines 109-110
SideLevels(ls, side) == SelectSeq(ls, LAMBDA l : l.side = side)

\* lines 117-118: closest to the current price first
SortLongMissing(cs) == cs
SortLong(cs) == SortClusters(cs, -1)
SortShort(cs) == SortClusters(cs, 1)

\* lines 128-136: the first cluster of the list that is significant
NearestFirst(cs) == IF cs = <<>> THEN NoCluster ELSE Head(cs)

RECURSIVE Nearest(_)
Nearest(cs) ==
    IF cs = <<>> THEN NoCluster
    ELSE IF Head(cs).total_size_usd >= MIN_CLUSTER_SIZE_USD
         THEN Head(cs)
         ELSE Nearest(Tail(cs))

\* aggregate_levels
aggregate_levels(ls, price) ==
    IF ls = <<>> \/ price <= 0
    THEN [coin |-> "coin", current_price |-> price,
          long_liquidations |-> <<>>, short_liquidations |-> <<>>,
          total_long_at_risk_usd |-> 0, total_short_at_risk_usd |-> 0,
          nearest_long_cluster |-> NoCluster, nearest_short_cluster |-> NoCluster]
    ELSE LET long_clusters ==
                 SortLong(aggregate_to_clusters(SideLevels(ls, "long"), price, "long"))
             short_clusters ==
                 SortShort(aggregate_to_clusters(SideLevels(ls, "short"), price, "short"))
         IN  [coin |-> "coin", current_price |-> price,
              long_liquidations |-> long_clusters,
              short_liquidations |-> short_clusters,
              total_long_at_risk_usd |-> SumTotal(long_clusters),
              total_short_at_risk_usd |-> SumTotal(short_clusters),
              nearest_long_cluster |-> Nearest(long_clusters),
              nearest_short_cluster |-> Nearest(short_clusters)]

\* The order of the levels does not change the map (buckets are grouped by
\* key and clusters sorted by centre), so the levels are drawn in one order:
\* by side, then price, then size.
LevelLeq(a, b) ==
    \/ a.side = "long" /\ b.side = "short"
    \/ a.side = b.side /\ a.price < b.price
    \/ a.side = b.side /\ a.price = b.price /\ a.size_usd <= b.size_usd

OrderIrrelevant ==
    LET RECURSIVE Reversed(_)
        Reversed(ls) == IF ls = <<>> THEN <<>>
                        ELSE Append(Reversed(Tail(ls)), Head(ls))
    IN  aggregate_levels(Reversed(levels), current_price)
            = aggregate_levels(levels, current_price)

\* the scan emits one more level for the coin
AddLevel ==
    /\ liq_map = NoMap
    /\ Len(levels) < MaxLevels
    /\ \E l \in LevelSet :
        /\ IF levels = <<>> THEN TRUE ELSE LevelLeq(levels[Len(levels)], l)
        /\ levels' = Append(levels, l)
    /\ UNCHANGED <<current_price, liq_map, rate_vars, data_vars, store_vars, more_vars>>

\* aggregate_levels(levels, current_price, coin)
AggregateLevels ==
    /\ liq_map = NoMap
    /\ liq_map' = aggregate_levels(levels, current_price)
    /\ UNCHANGED <<current_price, levels, rate_vars, data_vars, store_vars, more_vars>>

InitAgg ==
    /\ InitRate
    /\ InitDataIdle
    /\ InitStoreIdle
    /\ InitMoreIdle
    /\ current_price \in RefPrices
    /\ levels = <<>>
    /\ liq_map = NoMap

NextAgg ==
    \/ AddLevel
    \/ AggregateLevels

SpecAgg == InitAgg /\ [][NextAgg]_vars

\* =========================================================================
\* Part III: what a scan makes of the venue's answers
\* =========================================================================
\* The calls of scan_wallets on one scanner, seen from their data: which
\* answer each wallet query got, what get_user_positions decodes from it and
\* what lines 104-126 keep.  The timing of the queries is Part I's subject
\* and is left out here.  Of a Position and of a ScanResult the fields are
\* kept that decoding, filtering and the levels read; the exposure totals,
\* entry price, pnl and margin are left out.  Dollars are whole numbers.

\* bounds
MaxScanWallets == 2

\* config.MIN_POSITION_VALUE_USD
MIN_POSITION_VALUE_USD == 1000
\* DataValidator.MAX_POSITION_SIZE_USD, MIN_LEVERAGE, MAX_LEVERAGE
MAX_POSITION_SIZE_USD == 1000000000
MIN_LEVERAGE == 1
MAX_LEVERAGE == 200

\* pos.get("liquidationPx") when the key is absent and when it is JSON null:
\* both are Python's None
Absent == "<absent>"
JsonNull == "<null>"
\* Python's None for Position.liquidation_price, and a float
None == <<>>
Some(x) == <<x>>

\* float(text) for the texts that are numbers; float raises on the others
FloatText == ("1995" :> 1995) @@ ("0" :> 0) @@ ("-5" :> -5)

Abs(x) == IF x < 0 THEN -x ELSE x

\* the position objects of a clearinghouseState answer
PlainPositions ==
    [szi : {-1, 1}, positionValue : {999, 1000},
     liquidationPx : {Absent, JsonNull, "null", "1995"},
     leverage : {20}, coin : {"BTC"}]

Plain == [szi |-> 1, positionValue |-> 1000, liquidationPx |-> "1995",
          leverage |-> 20, coin |-> "BTC"]

OddPositions ==
    {[Plain EXCEPT !.szi = 0],
     [Plain EXCEPT !.liquidationPx = ""],
     [Plain EXCEPT !.liquidationPx = "0"],
     [Plain EXCEPT !.liquidationPx = "-5", !.szi = -1],
     [Plain EXCEPT !.liquidationPx = "abc"],
     [Plain EXCEPT !.leverage = 500],
     [Plain EXCEPT !.positionValue = MAX_POSITION_SIZE_USD + 1],
     [Plain EXCEPT !.positionValue = -1000, !.szi = -1],
     [Plain EXCEPT !.coin = "ETH"]}

RawPositions == PlainPositions \cup OddPositions

\* the assetPositions of an answer: none, one, or two positions
Bodies ==
    {<<>>} \cup {<<p>> : p \in RawPositions}
    \cup {<<Plain, q>> : q \in {[Plain EXCEPT !.coin = "ETH", !.liquidationPx = JsonNull],
                               [Plain EXCEPT !.liquidationPx = "abc"],
                               [Plain EXCEPT !.szi = -1, !.positionValue = 999]}}

\* what a wallet query can end with: session.post raises ("network"),
\* a status other than 200 ("status"), a body that is no JSON ("garbled"),
\* or a decoded JSON object
NoResponse == [kind |-> "none"]
Failures == {[kind |-> "network"], [kind |-> "status"], [kind |-> "garbled"]}
Responses == Failures \cup {[kind |-> "ok", assetPositions |-> b] : b \in Bodies}

\* "if liq_px and liq_px != 'null'": None and the empty string are falsy
HasLiquidationPxTruthy(liq_px) == liq_px \notin {Absent, JsonNull, ""}
HasLiquidationPx(liq_px) ==
    /\ liq_px \notin {Absent, JsonNull, ""}
    /\ liq_px # "null"

\* "except Exception: return []"
OnParseErrorPartial(positions) == positions
OnParseError(positions) == <<>>

\* the loop of lines 109-139
RECURSIVE ParsePositions(_, _, _)
ParsePositions(assetPositions, wallet, positions) ==
    IF assetPositions = <<>> THEN positions
    ELSE LET pos == Head(assetPositions)
             liq_px == pos.liquidationPx
         IN  IF Abs(pos.szi) < 1
             THEN ParsePositions(Tail(assetPositions), wallet, positions)
             ELSE IF HasLiquidationPx(liq_px) /\ liq_px \notin DOMAIN FloatText
             THEN OnParseError(positions)
             ELSE ParsePositions(Tail(assetPositions), wallet,
                    Append(positions,
                        [wallet |-> wallet,
                         coin |-> pos.coin,
                         size |-> pos.szi,
                         liquidation_price |->
                            IF HasLiquidationPx(liq_px)
                            THEN Some(FloatText[liq_px]) ELSE None,
                         leverage |-> pos.leverage,
                         notional_value |-> Abs(pos.positionValue)]))

\* get_user_positions: whatever _request or the decoding raises ends in []
get_user_positions(response, wallet) ==
    IF response.kind # "ok" THEN <<>>
    ELSE ParsePositions(response.assetPositions, wallet, <<>>)

\* scan_wallet: the positions, never an exception
scan_wallet(response, wallet) ==
    [exception |-> FALSE, value |-> get_user_positions(response, wallet)]

\* Position.side
PositionSide(position) == IF position.size > 0 THEN "long" ELSE "short"

\* line 111
TooSmallOrEqual(position) == position.notional_value <= MIN_POSITION_VALUE_USD
TooSmall(position) == position.notional_value < MIN_POSITION_VALUE_USD

\* lines 119-126
LevelOf(position) ==
    [price |-> position.liquidation_price[1],
     size_usd |-> position.notional_value,
     side |-> PositionSide(position),
     wallet |-> position.wallet,
     coin |-> position.coin,
     leverage |-> position.leverage]

\* lines 109-126: the positions of one result
RECURSIVE ProcessPositions(_, _)
ProcessPositions(acc, positions) ==
    IF positions = <<>> THEN acc
    ELSE LET position == Head(positions)
             kept == [acc EXCEPT
                        !.all_positions = Append(@, position),
                        !.positions_by_coin[position.coin] = Append(@, position)]
         IN  IF TooSmall(position)
             THEN ProcessPositions(acc, Tail(positions))
             ELSE IF position.liquidation_price # None
             THEN ProcessPositions(
                    [kept EXCEPT !.liquidation_levels = Append(@, LevelOf(position))],
                    Tail(positions))
             ELSE ProcessPositions(kept, Tail(positions))

\* lines 104-126: "for wallet, result in zip(batch, results)" for the
\* wallets first..last
RECURSIVE ProcessResults(_, _, _, _)
ProcessResults(acc, raw, first, last) ==
    IF first > last THEN acc
    ELSE LET result == scan_wallet(raw[first], first)
         IN  IF result.exception
             THEN ProcessResults([acc EXCEPT !.errors = @ + 1], raw, first + 1, last)
             ELSE ProcessResults(ProcessPositions(acc, result.value),
                                 raw, first + 1, last)

\* lines 143-152
ScanResult(call) ==
    [total_wallets_scanned |-> call.total,
     total_positions_found |-> Len(call.acc.all_positions),
     liquidation_levels |-> call.acc.liquidation_levels,
     positions_by_coin |-> call.acc.positions_by_coin,
     errors |-> call.acc.errors]

\* the wallets of the batch that starts after wallet i
BatchOf(call) == (call.i + 1)..Min(call.i + API_REQUESTS_PER_SECOND, call.total)

\* ------------------------------------------------------------ the scan lock
\* Lock.acquire returns at once when the lock is free and nobody waits
LockFree(lock) == ~lock.locked /\ lock.waiters = <<>>

\* leaving "async with self._scan_lock", by return or by an exception: the
\* lock is released and its first waiter is woken
ReleaseScanLockNever(lock) == lock
ReleaseScanLock(lock) == [lock EXCEPT !.locked = FALSE]

\* lines 82-102 for n wallets, with the lock held: the first batch is
\* gathered, or with no wallet the result is returned at once
StartScan(call, n, waited) ==
    IF n = 0
    THEN LET done == [call EXCEPT !.total = 0, !.waited = waited]
         IN  [done EXCEPT !.pc = "returned", !.result = ScanResult(done)]
    ELSE [call EXCEPT !.pc = "gather", !.total = n, !.i = 0, !.waited = waited,
                      !.raw = [w \in 1..n |-> NoResponse]]

\* the scanner's cache after a call has moved on: lines 155-157
CacheOf(call, cache) == IF call.pc = "returned" THEN call.result ELSE cache

\* scan_wallets(wallets) is called with n wallets, n drawn from Sizes
CallScan(k, Sizes) ==
    /\ scan_call[k].pc = "idle"
    /\ \A j \in Callers : j < k => scan_call[j].pc # "idle"
    /\ \E n \in Sizes :
        IF LockFree(scan_lock)
        THEN LET call == StartScan(scan_call[k], n, FALSE)
             IN  /\ scan_call' = [scan_call EXCEPT ![k] = call]
                 /\ scan_lock' = IF call.pc = "returned"
                                 THEN ReleaseScanLock([scan_lock EXCEPT !.locked = TRUE])
                                 ELSE [scan_lock EXCEPT !.locked = TRUE]
                 /\ last_scan_result' = CacheOf(call, last_scan_result)
        ELSE /\ scan_call' = [scan_call EXCEPT ![k].pc = "waiting", ![k].total = n]
             /\ scan_lock' = [scan_lock EXCEPT !.waiters = Append(@, k)]
             /\ UNCHANGED last_scan_result
    /\ UNCHANGED <<rate_vars, agg_vars, store_vars, more_vars>>

\* the first waiter of the released lock acquires it and starts its scan
AcquireScanLock(k) ==
    /\ scan_call[k].pc = "waiting"
    /\ ~scan_lock.locked
    /\ scan_lock.waiters # <<>>
    /\ Head(scan_lock.waiters) = k
    /\ LET call == StartScan(scan_call[k], scan_call[k].total, TRUE)
           held == [locked |-> TRUE, waiters |-> Tail(scan_lock.waiters)]
       IN  /\ scan_call' = [scan_call EXCEPT ![k] = call]
           /\ scan_lock' = IF call.pc = "returned" THEN ReleaseScanLock(held) ELSE held
           /\ last_scan_result' = CacheOf(call, last_scan_result)
    /\ UNCHANGED <<rate_vars, agg_vars, store_vars, more_vars>>

\* the query for one wallet of the gathered batch ends, with an answer
\* drawn from Answers
QueryDone(k, Answers) ==
    /\ scan_call[k].pc = "gather"
    /\ \E w \in BatchOf(scan_call[k]) :
        /\ scan_call[k].raw[w] = NoResponse
        /\ \E r \in Answers : scan_call' = [scan_call EXCEPT ![k].raw[w] = r]
    /\ UNCHANGED <<scan_lock, last_scan_result, rate_vars, agg_vars, store_vars, more_vars>>

\* every task of the batch is done: gather returns, lines 104-133 run and
\* the scan sleeps 0.1 s
GatherDone(k) ==
    /\ scan_call[k].pc = "gather"
    /\ \A w \in BatchOf(scan_call[k]) : scan_call[k].raw[w] # NoResponse
    /\ LET call == scan_call[k]
           batch == BatchOf(call)
       IN  scan_call' = [scan_call EXCEPT ![k] =
                [call EXCEPT !.pc = "sleep",
                             !.acc = ProcessResults(call.acc, call.raw,
                                        call.i + 1,
                                        Min(call.i + API_REQUESTS_PER_SECOND, call.total))]]
    /\ UNCHANGED <<scan_lock, last_scan_result, rate_vars, agg_vars, store_vars, more_vars>>

\* the sleep of line 136 is over: the next batch is gathered, or lines
\* 138-167 build, cache and return the result and the lock is released
NextBatch(k) ==
    /\ scan_call[k].pc = "sleep"
    /\ LET call == scan_call[k]
           i == call.i + API_REQUESTS_PER_SECOND
       IN  IF i < call.total
           THEN /\ scan_call' = [scan_call EXCEPT ![k].pc = "gather", ![k].i = i]
                /\ UNCHANGED <<scan_lock, last_scan_result>>
           ELSE /\ scan_call' = [scan_call EXCEPT ![k].pc = "returned",
                                                  ![k].result = ScanResult(call)]
                /\ last_scan_result' = ScanResult(call)
                /\ scan_lock' = ReleaseScanLock(scan_lock)
    /\ UNCHANGED <<rate_vars, agg_vars, store_vars, more_vars>>

\* the task of call k is cancelled, or an exception is raised in it, at one
\* of its awaits: waiting for the lock, in gather, or in the sleep
AbortScan(k) ==
    /\ scan_call[k].pc \in {"waiting", "gather", "sleep"}
    /\ scan_call' = [scan_call EXCEPT ![k].pc = "aborted"]
    /\ scan_lock' =
        IF scan_call[k].pc = "waiting"
        THEN [scan_lock EXCEPT !.waiters = SelectSeq(@, LAMBDA j : j # k)]
        ELSE ReleaseScanLock(scan_lock)
    /\ UNCHANGED <<last_scan_result, rate_vars, agg_vars, store_vars, more_vars>>

\* one call of scan_wallets that nothing cancels
NextScanData ==
    \/ CallScan(1, 0..MaxScanWallets)
    \/ QueryDone(1, Responses)
    \/ GatherDone(1)
    \/ NextBatch(1)

SpecScanData == Init /\ [][NextScanData]_vars

\* several calls on one scanner, any of which may be cancelled
LockAnswers == {[kind |-> "network"], [kind |-> "ok", assetPositions |-> <<Plain>>]}

NextScanLock ==
    \/ \E k \in Callers : CallScan(k, 0..MaxScanWallets)
    \/ \E k \in Callers : AcquireScanLock(k)
    \/ \E k \in Callers : QueryDone(k, LockAnswers)
    \/ \E k \in Callers : GatherDone(k)
    \/ \E k \in Callers : NextBatch(k)
    \/ \E k \in Callers : AbortScan(k)

SpecScanLock == Init /\ [][NextScanLock]_vars

\* =========================================================================
\* Part IV: the historical store and its retention maintenance
\* =========================================================================
\* Time is in minutes of UTC.  A stored timestamp is the text isoformat()
\* writes, a cutoff is the text SQLite's datetime('now', ...) returns; both
\* are kept as the tuple of their parts in the order the text has them, the
\* separator between date and time included, and are compared as SQLite
\* compares TEXT: part by part from the left.  A row is its key, (timestamp,
\* coin); maintenance never rewrites a row, so the other columns are left
\* out.  One maintenance run reads one clock: its statements follow each
\* other within the same minute.

\* bounds
MaxEvents == 1
MaxCycles == 2
MaxAttempts == 7

Days(n) == n * 24 * 60
Stamp(day, hour, minute) == (day * 24 + hour) * 60 + minute

\* the characters between date and time, by their code: isoformat() writes
\* "2026-10-02T12:30:00+00:00", datetime('now') returns "2026-10-02 12:30:00"
Separator == [T |-> 84, space |-> 32]

\* datetime.isoformat()
isoformat(t) ==
    <<t \div Days(1), Separator.T, (t % Days(1)) \div 60, t % 60>>

\* SQLite's datetime('now', '-n days') at time t
sqlite_datetime(t, n) ==
    LET c == t - Days(n)
    IN  <<c \div Days(1), Separator.space, (c % Days(1)) \div 60, c % 60>>

\* SQLite's strftime('%H', text) and strftime('%M', text): the text is parsed
\* as a time, with either separator
strftime_H(text) == text[3]
strftime_M(text) == text[4]

\* text < text in SQL: the first part that differs decides
RECURSIVE TextLess(_, _)
TextLess(a, b) ==
    IF a = <<>> \/ b = <<>> THEN a = <<>> /\ b # <<>>
    ELSE IF Head(a) # Head(b) THEN Head(a) < Head(b)
    ELSE TextLess(Tail(a), Tail(b))

\* the assets of the store, and the instants at which something happens
StoreCoins == {"BTC"}
Instants ==
    {StartClock,
     Stamp(10, 12, 30),
     Stamp(20, 12, 0), Stamp(20, 12, 5),
     Stamp(33, 12, 30),
     Stamp(37, 7, 0), Stamp(37, 8, 3),
     Stamp(40, 13, 0)}

Tables == [snapshots |-> snapshots, price_history |-> price_history,
           liquidation_events |-> liquidation_events]

\* time passes
AdvanceClock ==
    /\ \E t \in Instants : t > clock /\ clock' = t
    /\ maintained' = FALSE
    /\ report' = NoReport
    /\ UNCHANGED <<snapshots, price_history, liquidation_events, stored, before,
                   rate_vars, agg_vars, data_vars, more_vars>>

\* run_collection_cycle, lines 35 and 72-73: the cycle that started now
\* stores a snapshots row and a price row for every asset of the store (each
\* has levels and a price in every cycle); INSERT OR REPLACE on the key
\* (timestamp, coin)
CollectionCycle ==
    /\ LET rows == {[timestamp |-> isoformat(clock), coin |-> c] : c \in StoreCoins}
       IN  /\ snapshots' = snapshots \cup rows
           /\ price_history' = price_history \cup rows
           /\ stored' = stored \cup rows
    /\ maintained' = FALSE
    /\ report' = NoReport
    /\ UNCHANGED <<clock, liquidation_events, before, rate_vars, agg_vars, data_vars, more_vars>>

\* record_liquidation_event
RecordLiquidationEvent ==
    /\ Cardinality(liquidation_events) < MaxEvents
    /\ \E c \in StoreCoins :
        liquidation_events' = liquidation_events
            \cup {[timestamp |-> isoformat(clock), coin |-> c]}
    /\ maintained' = FALSE
    /\ report' = NoReport
    /\ UNCHANGED <<clock, snapshots, price_history, stored, before,
                   rate_vars, agg_vars, data_vars, more_vars>>

\* step 1: DELETE ... WHERE timestamp < datetime('now', '-30 days')
DeleteOld(rows, t) ==
    {r \in rows : ~TextLess(r.timestamp, sqlite_datetime(t, 30))}

\* step 2: DELETE ... WHERE timestamp < datetime('now', '-7 days')
\*   AND timestamp >= datetime('now', '-30 days')
\*   AND strftime('%H', timestamp) != '12'
DownsampleDaily(rows, t) ==
    {r \in rows :
        ~(/\ TextLess(r.timestamp, sqlite_datetime(t, 7))
          /\ ~TextLess(r.timestamp, sqlite_datetime(t, 30))
          /\ strftime_H(r.timestamp) # 12)}

\* step 3: DELETE ... WHERE timestamp < datetime('now', '-1 days')
\*   AND timestamp >= datetime('now', '-7 days')
\*   AND strftime('%M', timestamp) != '00'
DownsampleHourly(rows, t) ==
    {r \in rows :
        ~(/\ TextLess(r.timestamp, sqlite_datetime(t, 1))
          /\ ~TextLess(r.timestamp, sqlite_datetime(t, 7))
          /\ strftime_M(r.timestamp) # 0)}

Retain(rows, t) == DownsampleHourly(DownsampleDaily(DeleteOld(rows, t), t), t)

\* the three SELECT COUNT(*) FROM snapshots, each with the WHERE clause of
\* the DELETE that follows it
CountOld(rows, t) ==
    Cardinality({r \in rows : TextLess(r.timestamp, sqlite_datetime(t, 30))})

CountDailyUnbounded(rows, t) ==
    Cardinality({r \in rows :
        /\ TextLess(r.timestamp, sqlite_datetime(t, 7))
        /\ strftime_H(r.timestamp) # 12})

CountDaily(rows, t) ==
    Cardinality({r \in rows :
        /\ TextLess(r.timestamp, sqlite_datetime(t, 7))
        /\ ~TextLess(r.timestamp, sqlite_datetime(t, 30))
        /\ strftime_H(r.timestamp) # 12})

CountHourly(rows, t) ==
    Cardinality({r \in rows :
        /\ TextLess(r.timestamp, sqlite_datetime(t, 1))
        /\ ~TextLess(r.timestamp, sqlite_datetime(t, 7))
        /\ strftime_M(r.timestamp) # 0})

\* run_maintenance(db_path, dry_run): every count is taken on the table as
\* the steps before it left it; the DELETEs and VACUUM run only when dry_run
\* is false
RunMaintenance ==
    /\ \E dry_run \in BOOLEAN :
        LET step1 == IF dry_run THEN snapshots ELSE DeleteOld(snapshots, clock)
            step2 == IF dry_run THEN step1 ELSE DownsampleDaily(step1, clock)
            step3 == IF dry_run THEN step2 ELSE DownsampleHourly(step2, clock)
        IN  /\ report' = [mode |-> IF dry_run THEN "dry" ELSE "live",
                          old_count |-> CountOld(snapshots, clock),
                          downsample_count |-> CountDaily(step1, clock),
                          hourly_count |-> CountHourly(step2, clock)]
            /\ snapshots' = step3
            /\ price_history' =
                    IF dry_run THEN price_history ELSE Retain(price_history, clock)
            /\ maintained' = ~dry_run
    /\ before' = Tables
    /\ UNCHANGED <<clock, liquidation_events, stored, rate_vars, agg_vars, data_vars, more_vars>>

NextStore ==
    \/ AdvanceClock
    \/ CollectionCycle
    \/ RecordLiquidationEvent
    \/ RunMaintenance

SpecStore == Init /\ [][NextStore]_vars

\* =========================================================================
\* Part V: the rows of the store and their cluster documents
\* =========================================================================
doc_frame == <<rate_vars, agg_vars, data_vars, store_vars, cycle_vars, retry_vars,
              late_vars>>

\* A cluster document
\* is {'long': [...], 'short': [...]}, each array a list of the clusters'
\* asdict(); of a cluster's eight fields three are written out, the others
\* are carried the same way.  A text is a sequence of tokens.
Prices == {0, 100, 101}

LongCluster == [side |-> "long", price_center |-> 95, total_size_usd |-> 250000]
FarLongCluster == [side |-> "long", price_center |-> 80, total_size_usd |-> 100000]
ShortCluster == [side |-> "short", price_center |-> 110, total_size_usd |-> 400000]
Docs ==
    {[long |-> <<LongCluster>>, short |-> <<>>],
     [long |-> <<LongCluster, FarLongCluster>>, short |-> <<ShortCluster>>]}

Str(s) == [str |-> s]
Num(n) == [num |-> n]
Punct(c) == [punct |-> c]
Chars(s) == [chars |-> s]

\* json.dumps(data, separators=(',', ':')): the separators are left out
ClusterText(c) ==
    <<Punct("{"), Str("side"), Str(c.side),
      Str("price_center"), Num(c.price_center),
      Str("total_size_usd"), Num(c.total_size_usd), Punct("}")>>

RECURSIVE ListText(_)
ListText(clusters) ==
    IF clusters = <<>> THEN <<>>
    ELSE ClusterText(Head(clusters)) \o ListText(Tail(clusters))

json_dumps(data) ==
    <<Punct("{"), Str("long"), Punct("[")>> \o ListText(data.long)
        \o <<Punct("]"), Str("short"), Punct("[")>> \o ListText(data.short)
        \o <<Punct("]"), Punct("}")>>

\* what a decoder answers: a value, or an exception
Raised == [ok |-> FALSE]
Value(v) == [ok |-> TRUE, value |-> v]

\* json.loads: one cluster object that starts at token i
ParseCluster(text, i) ==
    IF /\ i + 7 <= Len(text)
       /\ text[i] = Punct("{")
       /\ text[i + 1] = Str("side") /\ DOMAIN text[i + 2] = {"str"}
       /\ text[i + 3] = Str("price_center") /\ DOMAIN text[i + 4] = {"num"}
       /\ text[i + 5] = Str("total_size_usd") /\ DOMAIN text[i + 6] = {"num"}
       /\ text[i + 7] = Punct("}")
    THEN [ok |-> TRUE, next |-> i + 8,
          value |-> [side |-> text[i + 2].str,
                     price_center |-> text[i + 4].num,
                     total_size_usd |-> text[i + 6].num]]
    ELSE Raised

\* json.loads: the clusters of an array whose "[" was read, up to its "]"
RECURSIVE ParseList(_, _, _)
ParseList(text, i, acc) ==
    IF i > Len(text) THEN Raised
    ELSE IF text[i] = Punct("]") THEN [ok |-> TRUE, next |-> i + 1, value |-> acc]
    ELSE LET c == ParseCluster(text, i)
         IN  IF c.ok THEN ParseList(text, c.next, Append(acc, c.value)) ELSE Raised

json_loads(text) ==
    IF /\ Len(text) >= 3
       /\ text[1] = Punct("{") /\ text[2] = Str("long") /\ text[3] = Punct("[")
    THEN LET long == ParseList(text, 4, <<>>)
         IN  IF long.ok /\ long.next + 1 <= Len(text)
                /\ text[long.next] = Str("short")
                /\ text[long.next + 1] = Punct("[")
             THEN LET short == ParseList(text, long.next + 2, <<>>)
                  IN  IF short.ok /\ short.next = Len(text)
                         /\ text[short.next] = Punct("}")
                      THEN Value([long |-> long.value, short |-> short.value])
                      ELSE Raised
             ELSE Raised
    ELSE Raised

\* zlib.compress(bytes, level=6) and zlib.decompress: the compressed bytes are
\* one opaque token
zlib_compress(bytes) == <<[zlib |-> bytes]>>
zlib_decompress(bytes) ==
    IF Len(bytes) = 1 /\ DOMAIN bytes[1] = {"zlib"}
    THEN Value(bytes[1].zlib) ELSE Raised

\* base64.b64encode and base64.b64decode
b64encode(bytes) == <<[b64 |-> bytes]>>
b64decode(text) ==
    IF Len(text) = 1 /\ DOMAIN text[1] = {"b64"}
    THEN Value(text[1].b64) ELSE Raised

COMPRESSION_MARKER == "ZLIB:"
\* str.startswith(COMPRESSION_MARKER); SQL's LIKE 'ZLIB:%' on a stored text
startswith(text, marker) == Len(text) >= 1 /\ text[1] = Chars(marker)

compress_json(data) ==
    <<Chars(COMPRESSION_MARKER)>> \o b64encode(zlib_compress(json_dumps(data)))

\* column values: SQL NULL, Python's {} and a text that is not JSON
SqlNull == <<[null |-> TRUE]>>
EmptyDict == [empty |-> TRUE]
InvalidJson == <<Punct("{"), Str("long")>>

\* decompress_json if the tag were never looked at
decompress_json_untagged(data) ==
    IF data = SqlNull \/ data = <<>> THEN EmptyDict
    ELSE LET parsed == json_loads(data)
         IN  IF parsed.ok THEN parsed.value ELSE EmptyDict

decompress_json(data) ==
    IF data = SqlNull \/ data = <<>> THEN EmptyDict
    ELSE IF startswith(data, COMPRESSION_MARKER)
    THEN LET compressed == b64decode(Tail(data))
             json_bytes == IF compressed.ok
                           THEN zlib_decompress(compressed.value) ELSE Raised
             parsed == IF json_bytes.ok THEN json_loads(json_bytes.value) ELSE Raised
         IN  IF parsed.ok THEN parsed.value ELSE EmptyDict
    ELSE LET parsed == json_loads(data)
         IN  IF parsed.ok THEN parsed.value ELSE EmptyDict

KeyOf(r) == <<r.timestamp, r.coin>>

\* INSERT without OR REPLACE, were there no UNIQUE(timestamp, coin)
InsertPlain(rows, row) == rows \cup {row}

\* INSERT OR REPLACE under UNIQUE(timestamp, coin)
InsertOrReplace(rows, row) ==
    {r \in rows : KeyOf(r) # KeyOf(row)} \cup {row}

\* the loop of store_snapshot and of store_prices over the dict's items
RECURSIVE InsertAll(_, _)
InsertAll(rows, new) ==
    IF new = {} THEN rows
    ELSE LET row == CHOOSE r \in new : TRUE
         IN  InsertAll(InsertOrReplace(rows, row), new \ {row})

\* what a version before compression left in clusters_json
LegacyTexts == {json_dumps(d) : d \in Docs} \cup {InvalidJson, SqlNull}

\* a row from before compression: json.dumps text, or NULL, or a damaged text
StoreLegacy ==
    /\ \A k \in DocKeys : written[k] = NotWritten
    /\ \E k \in DocKeys, text \in LegacyTexts :
        snapshot_rows' = InsertOrReplace(snapshot_rows,
            [timestamp |-> k[1], coin |-> k[2], clusters_json |-> text])
    /\ migration' = NoMigration
    /\ UNCHANGED <<price_rows, written, priced, doc_frame>>

\* store_snapshot(liq_maps, timestamp)
StoreSnapshot ==
    /\ \E timestamp \in DocStamps, coins \in (SUBSET DocCoins) \ {{}} :
        \E docs \in [coins -> Docs] :
            LET liq_maps == [c \in coins |->
                    [long_liquidations |-> docs[c].long,
                     short_liquidations |-> docs[c].short]]
                clusters(c) == [long |-> liq_maps[c].long_liquidations,
                                short |-> liq_maps[c].short_liquidations]
            IN  /\ snapshot_rows' = InsertAll(snapshot_rows,
                        {[timestamp |-> timestamp, coin |-> c,
                          clusters_json |-> compress_json(clusters(c))] : c \in coins})
                /\ written' = [k \in DocKeys |->
                        IF k[1] = timestamp /\ k[2] \in coins
                        THEN [written |-> TRUE, clusters |-> clusters(k[2]),
                              again |-> written[k].written]
                        ELSE written[k]]
    /\ migration' = NoMigration
    /\ UNCHANGED <<price_rows, priced, doc_frame>>

\* store_prices(prices, timestamp): "if price and price > 0"
StorePrices ==
    /\ \E timestamp \in DocStamps, coins \in (SUBSET DocCoins) \ {{}} :
        \E prices \in [coins -> Prices] :
            LET kept == {c \in coins : prices[c] # 0 /\ prices[c] > 0}
            IN  /\ price_rows' = InsertAll(price_rows,
                        {[timestamp |-> timestamp, coin |-> c, price |-> prices[c]] :
                            c \in kept})
                /\ priced' = [k \in DocKeys |->
                        IF k[1] = timestamp /\ k[2] \in kept
                        THEN prices[k[2]] ELSE priced[k]]
    /\ migration' = NoMigration
    /\ UNCHANGED <<snapshot_rows, written, doc_frame>>

\* WHERE clusters_json IS NOT NULL AND clusters_json NOT LIKE 'ZLIB:%'
NeedsCompression(r) ==
    r.clusters_json # SqlNull /\ ~startswith(r.clusters_json, COMPRESSION_MARKER)

\* compressing the stored text as a JSON string, were json.loads left out
RecompressText(text) ==
    <<Chars(COMPRESSION_MARKER)>> \o b64encode(zlib_compress(<<[quoted |-> text]>>))

\* data = json.loads(clusters_json); compressed = compress_json(data)
Recompress(text) == compress_json(json_loads(text).value)

\* migrate_compress(db_path, dry_run), with a batch size no smaller than the
\* table.  A row whose text json.loads refuses is counted as an error and
\* selected again by the next batch: the loop of the live run does not end.
MigrateCompress ==
    /\ \E dry_run \in BOOLEAN :
        LET todo == {r \in snapshot_rows : NeedsCompression(r)}
            valid == {r \in todo : json_loads(r.clusters_json).ok}
            updated == {[r EXCEPT !.clusters_json = Recompress(@)] : r \in valid}
        IN  /\ snapshot_rows' =
                    IF dry_run \/ todo = {} THEN snapshot_rows
                    ELSE (snapshot_rows \ valid) \cup updated
            /\ migration' =
                    [mode |-> IF dry_run THEN "dry" ELSE "live",
                     before |-> snapshot_rows,
                     outcome |-> IF todo = {} THEN "nothing to compress"
                                 ELSE IF dry_run THEN "estimated"
                                 ELSE IF valid = todo THEN "vacuumed"
                                 ELSE "looping"]
    /\ UNCHANGED <<price_rows, written, priced, doc_frame>>

\* get_snapshots(coin, start, end, limit): ORDER BY timestamp DESC LIMIT ?
RECURSIVE Newest(_, _)
Newest(rows, limit) ==
    IF limit = 0 \/ rows = {} THEN <<>>
    ELSE LET row == CHOOSE r \in rows : \A s \in rows : s.timestamp <= r.timestamp
         IN  <<row>> \o Newest(rows \ {row}, limit - 1)

get_snapshots(coin, start, end, limit) ==
    LET selected == {r \in snapshot_rows :
                        r.coin = coin /\ start <= r.timestamp /\ r.timestamp <= end}
        rows == Newest(selected, limit)
    IN  [i \in 1..Len(rows) |->
            IF rows[i].clusters_json # SqlNull /\ rows[i].clusters_json # <<>>
            THEN [rows[i] EXCEPT !.clusters_json = decompress_json(@)]
            ELSE rows[i]]

\* the two tables under the calls that write them
NextRows ==
    \/ StoreSnapshot
    \/ StorePrices

SpecRows == Init /\ [][NextRows]_vars

\* table snapshots from the rows of an earlier version to the migration
NextDocs ==
    \/ StoreLegacy
    \/ StoreSnapshot
    \/ MigrateCompress

SpecDocs == Init /\ [][NextDocs]_vars

\* =========================================================================
\* Part VI: the collector's cycle and its loop
\* =========================================================================
\* Wall time is counted in seconds.  The registry file is the number of
\* addresses it holds; the maps of a cycle are the to_dict() of the assets
\* that have levels and a price.
cycle_frame == <<rate_vars, agg_vars, data_vars, store_vars, doc_vars, retry_vars,
                late_vars>>

\* "if len(discovery.active_wallets) < 50"
BACKFILL_THRESHOLD == 50
\* config.ASSETS[:10]
BACKFILL_ASSETS == 10
\* "await asyncio.sleep(30)" of the except branch
ERROR_PAUSE == 30
\* run_continuous(interval_seconds = 300), --interval 60
DEFAULT_INTERVAL == 300
Intervals == {60, DEFAULT_INTERVAL}

CycleCoins == {"BTC", "ETH"}
\* how many addresses a backfill adds to the registry
Found == {0, BACKFILL_THRESHOLD - 1, BACKFILL_THRESHOLD}
\* the mid prices the venue quotes; 0 stands for an asset it does not quote
Mids == {[c \in CycleCoins |-> 100],
         [c \in CycleCoins |-> IF c = "BTC" THEN 101 ELSE 0]}
\* the assets a scan finds levels for
ScannedCoins == {{}, {"BTC"}, CycleCoins}

\* the steps of a cycle at which it awaits the network or writes a file
Awaiting == {"backfill", "scan", "prices"}
MayRaise == {"save_registry", "scan", "prices",
             "store_snapshot", "store_prices", "save_maps"}

Step(c, name, next) ==
    [c EXCEPT !.pc = next, !.trace = Append(@, name)]

InCycle(step) == loop.pc = "cycle" /\ cycle.pc = step

\* asyncio.run(run_continuous(args.interval, verbose))
RunContinuous ==
    /\ loop.pc = "off"
    /\ \E interval_seconds \in Intervals :
        loop' = [loop EXCEPT !.pc = "ready", !.mode = "continuous",
                             !.interval = interval_seconds]
    /\ UNCHANGED <<wall, registry_file, cycle, cycle_rows, maps_file, past, cycle_frame>>

\* asyncio.run(run_once(verbose))
RunOnce ==
    /\ loop.pc = "off"
    /\ loop' = [loop EXCEPT !.pc = "ready", !.mode = "once"]
    /\ UNCHANGED <<wall, registry_file, cycle, cycle_rows, maps_file, past, cycle_frame>>

\* line 35: timestamp = datetime.now(timezone.utc)
StartCycle ==
    /\ loop.pc = "ready"
    /\ loop.cycle_count < MaxCycles
    /\ loop' = [loop EXCEPT !.pc = "cycle", !.cycle_count = @ + 1]
    /\ cycle' = [NewCycle EXCEPT !.pc = "load", !.n = loop.cycle_count + 1,
                                 !.timestamp = wall]
    /\ UNCHANGED <<wall, registry_file, cycle_rows, maps_file, past, cycle_frame>>

\* the threshold, were it "no address at all"
NeedsBackfillEmpty(known) == known = 0

\* line 44
NeedsBackfill(known) == known < BACKFILL_THRESHOLD

\* lines 41-44: WalletDiscovery(); load_from_file() leaves the registry empty
\* when there is no file
LoadRegistry ==
    /\ InCycle("load")
    /\ LET known == IF registry_file = NoFile THEN 0 ELSE registry_file
       IN  cycle' = [Step(cycle, "load",
                          IF NeedsBackfill(known) THEN "backfill" ELSE "select")
                        EXCEPT !.seen = registry_file, !.known = known]
    /\ UNCHANGED <<wall, registry_file, loop, cycle_rows, maps_file, past, cycle_frame>>

\* line 47: backfill_from_recent_trades(config.ASSETS[:10]); it catches what
\* its requests raise
BackfillRegistry ==
    /\ InCycle("backfill")
    /\ \E found \in Found :
        cycle' = [Step(cycle, "backfill", "save_registry")
                    EXCEPT !.known = @ + found, !.assets = BACKFILL_ASSETS]
    /\ UNCHANGED <<wall, registry_file, loop, cycle_rows, maps_file, past, cycle_frame>>

\* line 48: save_to_file()
SaveRegistry ==
    /\ InCycle("save_registry")
    /\ registry_file' = cycle.known
    /\ cycle' = Step(cycle, "save_registry", "select")
    /\ UNCHANGED <<wall, loop, cycle_rows, maps_file, past, cycle_frame>>

\* line 50: get_wallets(max_age_hours=24): the addresses seen in the last day
SelectWallets ==
    /\ InCycle("select")
    /\ \E wallets \in {0, cycle.known} :
        cycle' = [Step(cycle, "select", "scan") EXCEPT !.wallets = wallets]
    /\ UNCHANGED <<wall, registry_file, loop, cycle_rows, maps_file, past, cycle_frame>>

\* lines 56-57: the scan's levels, here the assets that have any
ScanPositions ==
    /\ InCycle("scan")
    /\ \E coins \in ScannedCoins :
        /\ cycle.wallets = 0 => coins = {}
        /\ cycle' = [Step(cycle, "scan", "prices") EXCEPT !.levels = coins]
    /\ UNCHANGED <<wall, registry_file, loop, cycle_rows, maps_file, past, cycle_frame>>

\* line 60: get_current_prices()
FetchPrices ==
    /\ InCycle("prices")
    /\ \E prices \in Mids :
        cycle' = [Step(cycle, "prices", "build") EXCEPT !.prices = prices]
    /\ UNCHANGED <<wall, registry_file, loop, cycle_rows, maps_file, past, cycle_frame>>

\* LiquidationMap.to_dict(), of which asset and price are written out
to_dict(coin, price) == [coin |-> coin, current_price |-> price]

\* lines 63-69: build_maps_from_levels makes a map for every asset that has
\* levels and a price above 0
BuildMaps ==
    /\ InCycle("build")
    /\ cycle' = [Step(cycle, "build", "store_snapshot")
                    EXCEPT !.maps = {to_dict(c, cycle.prices[c]) :
                                        c \in {x \in cycle.levels : cycle.prices[x] > 0}}]
    /\ UNCHANGED <<wall, registry_file, loop, cycle_rows, maps_file, past, cycle_frame>>

\* the timestamp of the rows, were it taken when they are written
StampAtStore(c) == wall

\* line 72 passes the timestamp of line 35
StampOf(c) == c.timestamp

\* line 72: storage.store_snapshot(liq_maps_dict, timestamp)
StoreCycleSnapshot ==
    /\ InCycle("store_snapshot")
    /\ cycle_rows' = InsertAll(cycle_rows,
            {[timestamp |-> StampOf(cycle), coin |-> m.coin, map |-> m,
              cycle |-> cycle.n] : m \in cycle.maps})
    /\ cycle' = Step(cycle, "store_snapshot", "store_prices")
    /\ UNCHANGED <<wall, registry_file, loop, maps_file, past, cycle_frame>>

\* line 73: storage.store_prices(prices, timestamp)
StoreCyclePrices ==
    /\ InCycle("store_prices")
    /\ cycle' = Step(cycle, "store_prices", "save_maps")
    /\ UNCHANGED <<wall, registry_file, loop, cycle_rows, maps_file, past, cycle_frame>>

\* line 76: aggregator.save_maps() rewrites the file
SaveMaps ==
    /\ InCycle("save_maps")
    /\ maps_file' = cycle.maps
    /\ cycle' = Step(cycle, "save_maps", "return")
    /\ UNCHANGED <<wall, registry_file, loop, cycle_rows, past, cycle_frame>>

\* time passes while the cycle awaits
Elapse ==
    /\ loop.pc = "cycle"
    /\ cycle.pc \in Awaiting
    /\ ~cycle.waited
    /\ wall' = wall + 1
    /\ cycle' = [cycle EXCEPT !.waited = TRUE]
    /\ UNCHANGED <<registry_file, loop, cycle_rows, maps_file, past, cycle_frame>>

Ended(how, pause) ==
    [n |-> cycle.n, timestamp |-> cycle.timestamp, ended |-> wall,
     outcome |-> how, pause |-> pause]

\* the except branch, were the pause the configured interval
OnExceptionInterval(l) == [l EXCEPT !.pc = "sleep", !.sleep = l.interval]

\* lines 109-111: except Exception: ... await asyncio.sleep(30)
OnException(l) == [l EXCEPT !.pc = "sleep", !.sleep = ERROR_PAUSE]

\* a step of the cycle raises: run_continuous catches it, run_once does not
CycleRaises ==
    /\ loop.pc = "cycle"
    /\ cycle.pc \in MayRaise
    /\ cycle' = [cycle EXCEPT !.pc = "failed"]
    /\ loop' = IF loop.mode = "continuous" THEN OnException(loop)
               ELSE [loop EXCEPT !.pc = "exited"]
    /\ past' = Append(past, Ended("failed",
                    IF loop.mode = "continuous" THEN OnException(loop).sleep ELSE 0))
    /\ UNCHANGED <<wall, registry_file, cycle_rows, maps_file, cycle_frame>>

\* line 84 and lines 99-104: the cycle returns; await asyncio.sleep(interval_seconds)
CycleReturns ==
    /\ InCycle("return")
    /\ cycle' = [cycle EXCEPT !.pc = "done"]
    /\ loop' = IF loop.mode = "continuous"
               THEN [loop EXCEPT !.pc = "sleep", !.sleep = loop.interval]
               ELSE [loop EXCEPT !.pc = "exited"]
    /\ past' = Append(past, Ended("completed",
                    IF loop.mode = "continuous" THEN loop.interval ELSE 0))
    /\ UNCHANGED <<wall, registry_file, cycle_rows, maps_file, cycle_frame>>

\* the sleep of line 104 or of line 111 is over: "while True"
SleepOver ==
    /\ loop.pc = "sleep"
    /\ wall' = wall + loop.sleep
    /\ loop' = [loop EXCEPT !.pc = "ready", !.sleep = 0]
    /\ UNCHANGED <<registry_file, cycle, cycle_rows, maps_file, past, cycle_frame>>

\* Ctrl-C ends the loop, in a cycle or in a sleep
Interrupt ==
    /\ loop.mode = "continuous"
    /\ loop.pc \in {"cycle", "sleep"}
    /\ loop' = [loop EXCEPT !.pc = "stopped", !.interrupted = TRUE]
    /\ UNCHANGED <<wall, registry_file, cycle, cycle_rows, maps_file, past, cycle_frame>>

NextCollector ==
    \/ RunContinuous
    \/ RunOnce
    \/ StartCycle
    \/ LoadRegistry
    \/ BackfillRegistry
    \/ SaveRegistry
    \/ SelectWallets
    \/ ScanPositions
    \/ FetchPrices
    \/ BuildMaps
    \/ StoreCycleSnapshot
    \/ StoreCyclePrices
    \/ SaveMaps
    \/ Elapse
    \/ CycleRaises
    \/ CycleReturns
    \/ SleepOver
    \/ Interrupt

SpecCollector == Init /\ [][NextCollector]_vars

\* =========================================================================
\* Part VII: the retry wrappers
\* =========================================================================
\* retry_async and retry_sync are the same loop, one awaiting asyncio.sleep,
\* the other calling time.sleep.  Delays are whole seconds.  An exception is
\* the attempt that raised it and whether its class is in the wrapper's
\* exceptions tuple.
retry_frame == <<rate_vars, agg_vars, data_vars, store_vars, doc_vars, cycle_vars,
                late_vars>>

Wrappers == {"retry_async", "retry_sync"}
\* the defaults of lines 22-28, and two other policies
DefaultPolicy == [initial_delay |-> 1, max_delay |-> 30, exponential_base |-> 2]
Policies ==
    {DefaultPolicy,
     [initial_delay |-> 4, max_delay |-> 10, exponential_base |-> 3],
     [initial_delay |-> 60, max_delay |-> 30, exponential_base |-> 2]}
\* what one invocation of the wrapped function does
Outcomes == {"returns", "retryable", "other"}

\* the exception classes: the builtin ones of the default tuple and the
\* classes of lines 123-142, each with the classes it derives from (itself
\* included); asyncio.TimeoutError is TimeoutError
Bases ==
    [ConnectionError |-> {"ConnectionError", "OSError", "Exception"},
     TimeoutError |-> {"TimeoutError", "OSError", "Exception"},
     RetryableError |-> {"RetryableError", "Exception"},
     APIError |-> {"APIError", "RetryableError", "Exception"},
     RateLimitError |-> {"RateLimitError", "RetryableError", "Exception"},
     DataValidationError |-> {"DataValidationError", "Exception"}]
\* lines 15-19
RETRYABLE_EXCEPTIONS == {"ConnectionError", "TimeoutError"}
\* the exceptions argument: the default and a tuple naming APIError
ExceptionTuples == {RETRYABLE_EXCEPTIONS, {"APIError"}}
\* no exception: the invocation returned
NoThrow == [class |-> "none", status_code |-> 0]
\* the exception objects a wrapped call raises; status_code is None (0) but
\* for an APIError
Thrown ==
    {[class |-> "ConnectionError", status_code |-> 0],
     [class |-> "TimeoutError", status_code |-> 0],
     [class |-> "RateLimitError", status_code |-> 0],
     [class |-> "APIError", status_code |-> 503],
     [class |-> "APIError", status_code |-> 404]}
\* isinstance(e, classes), which is how an except clause matches
isinstance(e, classes) == Bases[e.class] \cap classes # {}
\* what an invocation did, seen from the wrapper's except clause
OutcomeOf(e, classes) ==
    IF e = NoThrow THEN "returns"
    ELSE IF isinstance(e, classes) THEN "retryable"
    ELSE "other"

\* "except exceptions as e", were every exception caught
CaughtAlways(kind) == kind # "returns"

\* "except exceptions as e": the classes of the exceptions tuple
Caught(kind) == kind = "retryable"

\* "if attempt == max_attempts", were the loop one pass longer
LastAttemptLate(r) == r.attempt = r.max_attempts + 1

\* "if attempt == max_attempts"
LastAttempt(r) == r.attempt = r.max_attempts

\* the wrapped function is called through the wrapper; "for attempt in
\* range(1, max_attempts + 1)" has nothing to do when max_attempts < 1
CallWrapped ==
    /\ retry.pc = "idle"
    /\ \E wrapper \in Wrappers, max_attempts \in 0..MaxAttempts, policy \in Policies,
          exceptions \in ExceptionTuples :
        retry' = [retry EXCEPT
            !.wrapper = wrapper,
            !.exceptions = exceptions,
            !.max_attempts = max_attempts,
            !.policy = policy,
            !.delay = policy.initial_delay,
            !.attempt = IF max_attempts >= 1 THEN 1 ELSE 0,
            !.pc = IF max_attempts >= 1 THEN "calling" ELSE "returned"]
    /\ UNCHANGED retry_frame

\* lines 50-67 (96-113): one pass of the loop body up to the sleep
Invoke ==
    /\ retry.pc = "calling"
    /\ \E thrown \in Thrown \cup {NoThrow} :
        LET kind == OutcomeOf(thrown, retry.exceptions)
            e == [kind |-> kind, attempt |-> retry.attempt]
            called == [retry EXCEPT !.invocations = @ + 1,
                                    !.outcomes = Append(@, kind),
                                    !.thrown = Append(@, thrown)]
        IN  retry' =
                IF kind = "returns"
                THEN [called EXCEPT !.pc = "returned", !.result = "value"]
                ELSE IF ~Caught(kind)
                THEN [called EXCEPT !.pc = "raised", !.raised = e]
                ELSE IF LastAttempt(retry)
                THEN [called EXCEPT !.pc = "raised", !.raised = e,
                                    !.last_exception = e]
                ELSE [called EXCEPT !.pc = "sleeping", !.last_exception = e]
    /\ UNCHANGED retry_frame

\* lines 67-68 (113-114): the sleep of the current delay ends, and
\* delay = min(delay * exponential_base, max_delay)
SleepDone ==
    /\ retry.pc = "sleeping"
    /\ retry' = [retry EXCEPT
            !.waits = Append(@, retry.delay),
            !.delay = Min(retry.delay * retry.policy.exponential_base,
                          retry.policy.max_delay),
            !.attempt = @ + 1,
            !.pc = "calling"]
    /\ UNCHANGED retry_frame

NextRetry ==
    \/ CallWrapped
    \/ Invoke
    \/ SleepDone

SpecRetry == Init /\ [][NextRetry]_vars

\* =========================================================================
\* Part VIII: the wallet registry and the websocket listener
\* =========================================================================
\* An address is the sequence of its characters.  The registry's maps are
\* functions on the keys they hold.  A datetime is a count of minutes; the
\* cache file holds it as the text isoformat() writes.  The listener is the
\* coroutine start_websocket_discovery, one step per await.
discovery_frame ==
    <<rate_vars, agg_vars, data_vars, store_vars, doc_vars, cycle_vars, retry_vars,
      validation_vars, batch_vars, migrate_vars, collect_vars>>

\* bounds: calls of add_wallet, half days the clock moves, calls of
\* websockets.connect, frames per connection
MaxAdds == 3
MaxHalfDays == 3
MaxConnects == 3
MaxFrames == 2

HalfDay == 12 * 60

\* str.lower(), character by character
LowerChar(c) ==
    CASE c = "A" -> "a"
      [] c = "B" -> "b"
      [] c = "C" -> "c"
      [] c = "D" -> "d"
      [] OTHER -> c
lower_unchanged(s) == s
lower(s) == [i \in 1..Len(s) |-> LowerChar(s[i])]

\* the addresses the venue reports
Addresses == {<<"a", "b">>, <<"A", "b">>, <<"A", "B">>, <<"c", "1">>}

\* dict.get(k, default) and d[k] = v
Get(map, k, default) == IF k \in DOMAIN map THEN map[k] ELSE default
Put(map, k, v) == [x \in DOMAIN map \cup {k} |-> IF x = k THEN v ELSE map[x]]

\* datetime.fromisoformat(text)
fromisoformat(text) == Stamp(text[1], text[3], text[4])

\* add_wallet(wallet) at time t: the instance after the call, its field
\* returned holding is_new
add_wallet(d, wallet, t) ==
    LET w == lower(wallet)
        is_new == w \notin d.active_wallets
    IN  [d EXCEPT !.active_wallets = @ \cup {w},
                  !.wallet_last_seen = Put(@, w, t),
                  !.wallet_trade_count = Put(@, w, Get(@, w, 0) + 1),
                  !.returned = [is_new |-> is_new]]

\* the users of a list of trades, in their order: trade.get("users", [])
RECURSIVE UsersOf(_)
UsersOf(trades) ==
    IF trades = <<>> THEN <<>>
    ELSE (IF "users" \in DOMAIN Head(trades) THEN Head(trades).users ELSE <<>>)
         \o UsersOf(Tail(trades))

\* discover_from_trades(trades): add_wallet for every user, new_count returned
RECURSIVE AddUsers(_, _, _, _)
AddUsers(d, users, t, new_count) ==
    IF users = <<>> THEN [d EXCEPT !.returned = [new_count |-> new_count]]
    ELSE LET e == add_wallet(d, Head(users), t)
         IN  AddUsers(e, Tail(users), t,
                      IF e.returned.is_new THEN new_count + 1 ELSE new_count)
discover_from_trades(d, trades, t) == AddUsers(d, UsersOf(trades), t, 0)

\* the address all spellings of an address stand for
Canonical(a) ==
    CASE a \in {<<"a", "b">>, <<"A", "b">>, <<"A", "B">>} -> <<"a", "b">>
      [] OTHER -> a
\* the call counts of the addresses, after add_wallet was called for users
RECURSIVE Count(_, _)
Count(counts, users) ==
    IF users = <<>> THEN counts
    ELSE Count(Put(counts, Canonical(Head(users)),
                   Get(counts, Canonical(Head(users)), 0) + 1), Tail(users))
Called(users) ==
    [added EXCEPT !.calls = Count(@, users), !.held = Count(@, users)]

RECURSIVE SumOver(_, _)
SumOver(map, keys) ==
    IF keys = {} THEN 0
    ELSE LET k == CHOOSE x \in keys : TRUE
         IN  map[k] + SumOver(map, keys \ {k})
Adds == SumOver(added.calls, DOMAIN added.calls)

\* the trades of one frame or one recentTrades answer
TradeLists ==
    {<<>>,
     <<[users |-> <<<<"A", "b">>, <<"c", "1">>>>]>>,
     <<[users |-> <<<<"a", "b">>, <<"A", "B">>>>], [coin |-> "BTC"]>>}

\* ------------------------------------------------------------ the registry
\* add_wallet is called with an address
AddWallet ==
    /\ Adds < MaxAdds
    /\ \E a \in Addresses :
        /\ discovery' = add_wallet(discovery, a, seen_clock)
        /\ added' = Called(<<a>>)
    /\ UNCHANGED <<seen_clock, wallets_json, ws, discovery_frame>>

\* discover_from_trades is called with the trades of an answer
DiscoverFromTrades ==
    /\ \E trades \in TradeLists :
        /\ Adds + Len(UsersOf(trades)) <= MaxAdds
        /\ discovery' = discover_from_trades(discovery, trades, seen_clock)
        /\ added' = Called(UsersOf(trades))
    /\ UNCHANGED <<seen_clock, wallets_json, ws, discovery_frame>>

\* save_to_file
SaveToFile ==
    /\ wallets_json' =
        [exists |-> TRUE,
         wallets |-> discovery.active_wallets,
         last_seen |-> [k \in DOMAIN discovery.wallet_last_seen |->
                            isoformat(discovery.wallet_last_seen[k])],
         trade_counts |-> discovery.wallet_trade_count,
         saved_at |-> isoformat(seen_clock)]
    /\ discovery' = [discovery EXCEPT !.returned = ReturnedNone]
    /\ added' = [added EXCEPT !.saved = added.held]
    /\ UNCHANGED <<seen_clock, ws, discovery_frame>>

\* load_from_file: without a file FileNotFoundError is caught and nothing
\* changes
LoadFromFile ==
    /\ discovery' =
        IF ~wallets_json.exists THEN [discovery EXCEPT !.returned = ReturnedNone]
        ELSE [discovery EXCEPT
                !.active_wallets = wallets_json.wallets,
                !.wallet_last_seen =
                    [k \in DOMAIN wallets_json.last_seen |->
                        fromisoformat(wallets_json.last_seen[k])],
                !.wallet_trade_count = wallets_json.trade_counts,
                !.returned = ReturnedNone]
    /\ added' = IF wallets_json.exists THEN [added EXCEPT !.held = added.saved]
                ELSE added
    /\ UNCHANGED <<seen_clock, wallets_json, ws, discovery_frame>>

\* half a day passes
HalfDayPasses ==
    /\ seen_clock < MaxHalfDays * HalfDay
    /\ seen_clock' = seen_clock + HalfDay
    /\ UNCHANGED <<discovery, wallets_json, added, ws, discovery_frame>>

NextRegistry ==
    \/ AddWallet
    \/ DiscoverFromTrades
    \/ SaveToFile
    \/ LoadFromFile
    \/ HalfDayPasses

SpecRegistry == Init /\ [][NextRegistry]_vars

\* ------------------------------------------------------------ the listener
\* the fields of Config the listener reads, and the attribute its except
\* clause reads
Config ==
    [WS_URL |-> "wss://api.hyperliquid.xyz/ws",
     ASSETS |-> 20,             \* len(config.ASSETS)
     API_REQUESTS_PER_SECOND |-> API_REQUESTS_PER_SECOND,
     SCAN_INTERVAL_SECONDS |-> 300]
ReconnectDelay == "WS_RECONNECT_DELAY_SECONDS"
hasattr(obj, name) == name \in DOMAIN obj

\* what a frame holds: a trades message, a message of another channel, a
\* text that is no JSON, a JSON text that is no object
FrameKinds == {"trades", "other", "garbled", "array"}

\* "while self._running" is evaluated: the next pass connects, or the
\* coroutine returns
LoopTest(l, running, delay) ==
    IF running
    THEN [l EXCEPT !.pc = "connecting", !.connects = @ + 1,
                   !.subscribed = 0, !.frames = 0,
                   !.streak = IF l.connects = 0 THEN 0 ELSE @ + 1,
                   !.delays = IF l.connects = 0 THEN @
                              ELSE Append(@, [attempt |-> l.streak + 1,
                                              slept |-> delay])]
    ELSE [l EXCEPT !.pc = "returned"]

\* start_websocket_discovery is called
StartListener ==
    /\ ws.pc = "idle"
    /\ discovery' = [discovery EXCEPT !.running = TRUE]
    /\ ws' = LoopTest(ws, TRUE, 0)
    /\ UNCHANGED <<seen_clock, wallets_json, added, discovery_frame>>

\* websockets.connect raises
ConnectFails ==
    /\ ws.pc = "connecting"
    /\ ws' = [ws EXCEPT !.pc = "except", !.lost = "connect"]
    /\ UNCHANGED <<seen_clock, discovery, wallets_json, added, discovery_frame>>

\* the connection is made
Connected ==
    /\ ws.pc = "connecting"
    /\ ws' = [ws EXCEPT !.pc = "subscribing", !.lost = "none", !.streak = 0]
    /\ UNCHANGED <<seen_clock, discovery, wallets_json, added, discovery_frame>>

\* lines 108-113: the next subscription is sent; after the last one the
\* coroutine waits for frames
Subscribe ==
    /\ ws.pc = "subscribing"
    /\ ws' = [ws EXCEPT !.subscribed = @ + 1,
                        !.pc = IF ws.subscribed + 1 = Config.ASSETS
                               THEN "listening" ELSE "subscribing"]
    /\ UNCHANGED <<seen_clock, discovery, wallets_json, added, discovery_frame>>

\* ws.send raises: the connection was lost while subscribing
SendFails ==
    /\ ws.pc = "subscribing"
    /\ ws' = [ws EXCEPT !.pc = "except", !.lost = "error"]
    /\ UNCHANGED <<seen_clock, discovery, wallets_json, added, discovery_frame>>

\* lines 117-129: a frame is processed
Frame ==
    /\ ws.pc = "listening"
    /\ ws.frames < MaxFrames
    /\ \E kind \in FrameKinds, trades \in TradeLists :
        /\ kind # "trades" => trades = <<>>
        /\ Adds + Len(UsersOf(trades)) <= MaxAdds
        /\ discovery' = IF kind = "trades"
                        THEN discover_from_trades(discovery, trades, seen_clock)
                        ELSE discovery
        /\ added' = Called(UsersOf(trades))
        /\ ws' = IF kind = "array"
                 THEN [ws EXCEPT !.pc = "except", !.lost = "error"]
                 ELSE [ws EXCEPT !.frames = @ + 1,
                                 !.early = @ \/ ws.subscribed < Config.ASSETS]
    /\ UNCHANGED <<seen_clock, wallets_json, discovery_frame>>

\* the connection is closed with code 1000 or 1001: "async for" ends, the
\* "async with" is left and the loop test follows, with no sleep.  The venue
\* closes a connection as long as another one can be made; the close that
\* stop() asks for comes in any case.
CloseClean ==
    /\ ws.pc = "listening"
    /\ ws.connects < MaxConnects \/ ~discovery.running
    /\ ws' = LoopTest([ws EXCEPT !.lost = "close"], discovery.running, 0)
    /\ UNCHANGED <<seen_clock, discovery, wallets_json, added, discovery_frame>>

\* the connection breaks: "async for" raises ConnectionClosedError
CloseError ==
    /\ ws.pc = "listening"
    /\ ws' = [ws EXCEPT !.pc = "except", !.lost = "error"]
    /\ UNCHANGED <<seen_clock, discovery, wallets_json, added, discovery_frame>>

\* lines 131-135, "except Exception as e": when _running, the delay is read
\* from config, which raises AttributeError when Config has no such field
ExceptClause ==
    /\ ws.pc = "except"
    /\ ws' = IF ~discovery.running THEN LoopTest(ws, FALSE, 0)
             ELSE IF hasattr(Config, ReconnectDelay)
             THEN LoopTest(ws, TRUE, Config[ReconnectDelay])
             ELSE [ws EXCEPT !.pc = "raised", !.raised = "AttributeError"]
    /\ UNCHANGED <<seen_clock, discovery, wallets_json, added, discovery_frame>>

\* stop()
StopListener ==
    /\ ws.pc \notin {"idle", "returned", "raised"}
    /\ discovery.running
    /\ discovery' = [discovery EXCEPT !.running = FALSE]
    /\ UNCHANGED <<seen_clock, wallets_json, added, ws, discovery_frame>>

\* the steps of the coroutine and of the venue
ListenerSteps ==
    \/ ConnectFails
    \/ Connected
    \/ Subscribe
    \/ SendFails
    \/ Frame
    \/ CloseClean
    \/ CloseError
    \/ ExceptClause

NextListener ==
    \/ StartListener
    \/ StopListener
    \/ ListenerSteps

SpecListener == Init /\ [][NextListener]_vars

\* the event loop runs a coroutine that can run, and a connection attempt
\* ends
ListenerProgress ==
    \/ ConnectFails
    \/ Connected
    \/ Subscribe
    \/ ExceptClause

SpecListenerFair == Init /\ [][NextListener]_vars /\ WF_vars(ListenerProgress)

\* =========================================================================
\* Part IX: the data validator
\* =========================================================================
\* The validators are functions of their arguments.  Prices are whole
\* dollars, position sizes dollars, cluster sizes thousands of dollars (ten
\* billion dollars is more than an integer here holds), funding rates
\* hundredths of a percent.  A value that may be None or missing is a record
\* that says so.  A message is its text without the numbers.
validation_frame ==
    <<rate_vars, agg_vars, data_vars, store_vars, doc_vars, cycle_vars, retry_vars,
      discovery_vars, batch_vars, migrate_vars, collect_vars>>

\* a float, None, and a key the dict does not hold
Float(x) == [present |-> TRUE, null |-> FALSE, value |-> x]
PyNone == [present |-> TRUE, null |-> TRUE, value |-> 0]
Missing == [present |-> FALSE, null |-> FALSE, value |-> 0]

\* lines 32-50; the assets whose bounds are whole dollars.  A price in whole
\* dollars is below 0.0001 iff it is below 1.
PRICE_BOUNDS ==
    [BTC |-> <<10000, 500000>>,
     ETH |-> <<500, 50000>>,
     SOL |-> <<5, 1000>>,
     AVAX |-> <<5, 500>>,
     LINK |-> <<1, 500>>]
DEFAULT_PRICE_BOUNDS == <<1, 1000000>>
\* lines 53-58
MIN_CLUSTER_SIZE_KUSD == 10
MAX_CLUSTER_SIZE_KUSD == 10000000
MIN_POSITION_SIZE_USD == 100

ValidationResult(is_valid, warnings, errors) ==
    [is_valid |-> is_valid, warnings |-> warnings, errors |-> errors]

\* a warning or an error that is added when its condition holds
When(condition, message) == IF condition THEN <<message>> ELSE <<>>

\* validate_price, lines 64-86
validate_price(coin, price) ==
    IF price.null THEN ValidationResult(FALSE, <<>>, <<"Price is None">>)
    ELSE IF price.value <= 0
    THEN ValidationResult(FALSE, <<>>, <<"Invalid price">>)
    ELSE LET bounds == IF coin \in DOMAIN PRICE_BOUNDS THEN PRICE_BOUNDS[coin]
                       ELSE DEFAULT_PRICE_BOUNDS
         IN  ValidationResult(TRUE,
                When(price.value < bounds[1], "below expected minimum")
                \o When(price.value > bounds[2], "above expected maximum"),
                <<>>)

\* validate_liquidation_cluster, lines 88-126; distance_pct > 50 and > 100
validate_liquidation_cluster(coin, price_level, size_usd, price) ==
    LET small == When(size_usd < MIN_CLUSTER_SIZE_KUSD, "Cluster size below minimum")
        distance == Abs(price_level - price)
        far == When(price > 0 /\ 2 * distance > price, "from current price")
    IN  IF size_usd > MAX_CLUSTER_SIZE_KUSD
        THEN ValidationResult(FALSE, small, <<"Cluster size exceeds maximum">>)
        ELSE IF price > 0 /\ distance > price
        THEN ValidationResult(FALSE, small \o far, <<"unrealistically far">>)
        ELSE ValidationResult(TRUE, small \o far, <<>>)

\* "if leverage < self.MIN_LEVERAGE or leverage > self.MAX_LEVERAGE", were
\* the upper limit forgotten
LeverageBelow(leverage) == leverage < MIN_LEVERAGE
\* "if leverage < self.MIN_LEVERAGE or leverage > self.MAX_LEVERAGE"
LeverageOutside(leverage) == leverage < MIN_LEVERAGE \/ leverage > MAX_LEVERAGE

\* validate_position, lines 128-171; distance_pct < 0.1 and > 90
validate_position(wallet, coin, size_usd, leverage, liquidation_price, price) ==
    LET small == When(size_usd < MIN_POSITION_SIZE_USD, "below tracking threshold")
        distance == Abs(liquidation_price - price)
    IN  IF size_usd > MAX_POSITION_SIZE_USD
        THEN ValidationResult(FALSE, small, <<"exceeds realistic maximum">>)
        ELSE IF LeverageOutside(leverage)
        THEN ValidationResult(FALSE, small, <<"Invalid leverage">>)
        ELSE IF liquidation_price <= 0
        THEN ValidationResult(FALSE, small, <<"Invalid liquidation price">>)
        ELSE ValidationResult(TRUE,
                small
                \o When(price > 0 /\ 1000 * distance < price, "very close")
                \o When(price > 0 /\ 10 * distance > 9 * price, "very far"),
                <<>>)

\* cluster.get(key, 0)
GetOr0(cluster, key) == IF key \in DOMAIN cluster THEN cluster[key] ELSE 0

\* the warnings of one side's loop, lines 198-206 and 210-218
RECURSIVE SideWarnings(_, _, _)
SideWarnings(clusters, price, side) ==
    IF clusters = <<>> THEN <<>>
    ELSE LET price_level == GetOr0(Head(clusters), "price_center")
         IN  When(IF side = "long" THEN price_level > price
                  ELSE price_level < price,
                  IF side = "long" THEN "Long liquidation is ABOVE current"
                  ELSE "Short liquidation is BELOW current")
             \o SideWarnings(Tail(clusters), price, side)

RECURSIVE SideSize(_)
SideSize(clusters) ==
    IF clusters = <<>> THEN 0
    ELSE GetOr0(Head(clusters), "total_size_usd") + SideSize(Tail(clusters))

Max(a, b) == IF a > b THEN a ELSE b

\* validate_liquidation_map, lines 173-228; ratio > 100
validate_liquidation_map(coin, map, price) ==
    IF DOMAIN map = {}
    THEN ValidationResult(TRUE, <<"Empty liquidation map">>, <<>>)
    ELSE LET missing == When("long_liquidations" \notin DOMAIN map,
                             "Missing 'long_liquidations'")
                        \o When("short_liquidations" \notin DOMAIN map,
                                "Missing 'short_liquidations'")
         IN  IF missing # <<>> THEN ValidationResult(FALSE, <<>>, missing)
             ELSE LET total_long_size == SideSize(map.long_liquidations)
                      total_short_size == SideSize(map.short_liquidations)
                  IN  ValidationResult(TRUE,
                        SideWarnings(map.long_liquidations, price, "long")
                        \o SideWarnings(map.short_liquidations, price, "short")
                        \o When(/\ total_long_size > 0
                                /\ total_short_size > 0
                                /\ Max(total_long_size, total_short_size)
                                    > 100 * Min(total_long_size, total_short_size),
                                "Extreme long/short imbalance"),
                        <<>>)

\* data.get(field, 0)
FieldOr0(field) == IF field.present THEN field ELSE Float(0)

\* validate_market_data, lines 230-264; abs(funding) > 0.01
validate_market_data(coin, data) ==
    LET required ==
            When(~data.mark_price.present \/ data.mark_price.null,
                 "Missing required field 'mark_price'")
            \o When(~data.funding_rate.present \/ data.funding_rate.null,
                    "Missing required field 'funding_rate'")
        price_result == validate_price(coin, FieldOr0(data.mark_price))
        funding == FieldOr0(data.funding_rate)
        oi == FieldOr0(data.open_interest_usd)
        volume == FieldOr0(data.volume_24h)
        errors == price_result.errors
                  \o When(~oi.null /\ oi.value < 0, "Invalid open interest")
                  \o When(~volume.null /\ volume.value < 0, "Invalid volume")
    IN  IF required # <<>> THEN ValidationResult(FALSE, <<>>, required)
        ELSE ValidationResult(errors = <<>>,
                price_result.warnings
                \o When(Abs(funding.value) > 100, "Extreme funding rate"),
                errors)

\* ---------------------------------------------------------------- inputs
ValidatedCoins == {"BTC", "SOL", "HYPE"}
InputPrices ==
    {PyNone} \cup {Float(x) : x \in {-100, 0, 3, 5000, 89000, 600000, 2000000}}
CurrentPrices == {0, 89000}
ClusterLevels == {-1000, 0, 40000, 85000, 200000}
ClusterSizes == {5, 10, 1000, MAX_CLUSTER_SIZE_KUSD, MAX_CLUSTER_SIZE_KUSD + 1}
PositionSizes == {50, 100, 50000, MAX_POSITION_SIZE_USD, MAX_POSITION_SIZE_USD + 1}
Leverages == {0, 1, 10, 200, 201}
LiquidationPrices == {-5, 0, 5000, 85000, 88950}
ClusterDicts ==
    {<<>>,
     <<[price_center |-> 85000, total_size_usd |-> 1000000]>>,
     <<[price_center |-> 95000, total_size_usd |-> 5000]>>,
     <<[price_center |-> 85000, total_size_usd |-> 1000000],
       [total_size_usd |-> 100]>>}
LiquidationMaps ==
    {EmptyMap}
    \cup {[long_liquidations |-> l] : l \in ClusterDicts}
    \cup {[short_liquidations |-> l] : l \in ClusterDicts}
    \cup {[long_liquidations |-> l, short_liquidations |-> h] :
            l \in ClusterDicts, h \in ClusterDicts}
MarketData ==
    [mark_price : {Missing, PyNone, Float(0), Float(89000), Float(2000000)},
     funding_rate : {Missing, PyNone, Float(1), Float(-150)},
     open_interest_usd : {Missing, PyNone, Float(-1), Float(5)},
     volume_24h : {Missing, Float(-1), Float(7)}]

\* --------------------------------------------------------------- the calls
ValidatePrice ==
    /\ \E coin \in ValidatedCoins, price \in InputPrices :
        validation' = [call |-> "validate_price", coin |-> coin, price |-> price,
                       result |-> validate_price(coin, price)]
    /\ UNCHANGED validation_frame

ValidateLiquidationCluster ==
    /\ \E price_level \in ClusterLevels, size_usd \in ClusterSizes,
          price \in CurrentPrices :
        validation' = [call |-> "validate_liquidation_cluster",
                       price_level |-> price_level, size_usd |-> size_usd,
                       current_price |-> price,
                       result |-> validate_liquidation_cluster(
                                    "BTC", price_level, size_usd, price)]
    /\ UNCHANGED validation_frame

ValidatePosition ==
    /\ \E size_usd \in PositionSizes, leverage \in Leverages,
          liquidation_price \in LiquidationPrices, price \in CurrentPrices :
        validation' = [call |-> "validate_position",
                       size_usd |-> size_usd, leverage |-> leverage,
                       liquidation_price |-> liquidation_price,
                       current_price |-> price,
                       result |-> validate_position(
                                    "0xab", "BTC", size_usd, leverage,
                                    liquidation_price, price)]
    /\ UNCHANGED validation_frame

ValidateLiquidationMap ==
    /\ \E map \in LiquidationMaps, price \in CurrentPrices \cup {90000} :
        validation' = [call |-> "validate_liquidation_map",
                       liq_map |-> map, current_price |-> price,
                       result |-> validate_liquidation_map("BTC", map, price)]
    /\ UNCHANGED validation_frame

ValidateMarketData ==
    /\ \E coin \in ValidatedCoins, data \in MarketData :
        validation' = [call |-> "validate_market_data", coin |-> coin,
                       data |-> data,
                       result |-> validate_market_data(coin, data)]
    /\ UNCHANGED validation_frame

NextValidation ==
    \/ ValidatePrice
    \/ ValidateLiquidationCluster
    \/ ValidatePosition
    \/ ValidateLiquidationMap
    \/ ValidateMarketData

SpecValidation == Init /\ [][NextValidation]_vars

\* =========================================================================
\* Part X: the batches of a scan
\* =========================================================================
\* One call of scan_wallets with the lock held, its wallets numbered as
\* list(wallets) orders them.  The queries of a batch are counted, not told
\* apart: they start together in gather and end in any order.  What a query
\* answers is left out here.
batch_frame ==
    <<rate_vars, agg_vars, data_vars, store_vars, doc_vars, cycle_vars, retry_vars,
      discovery_vars, validation_vars, migrate_vars, collect_vars>>

\* config.MAX_WALLETS_TO_TRACK
MAX_WALLETS_TO_TRACK == 5000
\* len(wallets) of the calls
WalletSetSizes == {0, 1, 10, 11, 25, MAX_WALLETS_TO_TRACK, MAX_WALLETS_TO_TRACK + 3}

\* "list(wallets)[:config.MAX_WALLETS_TO_TRACK]", were the slice left out
Uncapped(n) == n
\* "list(wallets)[:config.MAX_WALLETS_TO_TRACK]": the length of the list
Capped(n) == Min(n, MAX_WALLETS_TO_TRACK)

\* lines 97-102: "for i in range(0, total, batch_size)" is at i, the batch
\* wallet_list[i:i + batch_size] is gathered; after the last pass lines
\* 138-159 return the result
GatherFrom(b, i) ==
    IF i < b.total
    THEN LET last == Min(i + API_REQUESTS_PER_SECOND, b.total)
         IN  [b EXCEPT !.pc = "gather", !.i = i, !.out = last - i,
                       !.log = Append(@, [first |-> i + 1, last |-> last]),
                       !.early = @ \/ b.out > 0
                                   \/ (b.log # <<>> /\ b.since < BatchSleep)]
    ELSE [b EXCEPT !.pc = "returned",
                   !.result = [total_wallets_scanned |-> b.total]]

\* scan_wallets(wallets) is called
ScanWalletSet ==
    /\ batches.pc = "idle"
    /\ \E n \in WalletSetSizes :
        batches' = GatherFrom([batches EXCEPT !.size = n, !.total = Capped(n)], 0)
    /\ UNCHANGED batch_frame

\* a query of the gathered batch ends, with positions or with an exception
QueryEnds ==
    /\ batches.pc = "gather"
    /\ batches.out > 0
    /\ batches' = [batches EXCEPT !.out = @ - 1]
    /\ UNCHANGED batch_frame

\* gather returns, the results are processed and the sleep of 0.1 s begins
GatherReturns ==
    /\ batches.pc = "gather"
    /\ batches.out = 0
    /\ batches' = [batches EXCEPT !.pc = "sleep", !.since = 0]
    /\ UNCHANGED batch_frame

\* a tick of the sleep passes
SleepTick ==
    /\ batches.pc = "sleep"
    /\ batches.since < BatchSleep
    /\ batches' = [batches EXCEPT !.since = @ + 1]
    /\ UNCHANGED batch_frame

\* the sleep is over: the loop goes on
SleepReturns ==
    /\ batches.pc = "sleep"
    /\ batches.since = BatchSleep
    /\ batches' = GatherFrom(batches, batches.i + API_REQUESTS_PER_SECOND)
    /\ UNCHANGED batch_frame

NextBatches ==
    \/ ScanWalletSet
    \/ QueryEnds
    \/ GatherReturns
    \/ SleepTick
    \/ SleepReturns

SpecBatches == Init /\ [][NextBatches]_vars

\* =========================================================================
\* Part XI: the compression migration, batch by batch
\* =========================================================================
\* migrate_compress of src/scripts/migrate_compress.py as the script runs it:
\* the counts and the early returns, then one step for each turn of the
\* "while True" loop.  SELECT ... LIMIT without ORDER BY: which of the rows
\* that need compression a batch holds is left open.
migrate_frame ==
    <<rate_vars, agg_vars, data_vars, store_vars, cycle_vars, retry_vars,
      discovery_vars, validation_vars, batch_vars, collect_vars>>

\* bounds: the errors and the SELECTs that are told apart (the counters stay
\* at the bound once they reach it)
MaxErrors == 2
MaxSelects == 3

\* --batch-size
BatchSizes == {1, 2}

\* the keys of the rows the store holds before the run
MigratedKeys == {k \in DocKeys : k[1] = 1 \/ k[2] = "BTC"}

\* what store_snapshot leaves in clusters_json
TaggedTexts == {compress_json(d) : d \in Docs}

\* the rows of table snapshots before the run: legacy texts, NULLs, damaged
\* texts, and texts store_snapshot wrote
StoreBefore ==
    /\ migrate.pc = "idle"
    /\ \E k \in MigratedKeys, text \in LegacyTexts \cup TaggedTexts :
        snapshot_rows' = InsertOrReplace(snapshot_rows,
            [timestamp |-> k[1], coin |-> k[2], clusters_json |-> text])
    /\ UNCHANGED <<price_rows, written, priced, migration, migrate, migrate_frame>>

\* lines 42-119: the counts, "Nothing to compress!", the dry run
MigrateStart ==
    /\ migrate.pc = "idle"
    /\ \E dry_run \in BOOLEAN, batch_size \in BatchSizes :
        LET uncompressed_count ==
                Cardinality({r \in snapshot_rows : NeedsCompression(r)})
        IN  migrate' = [migrate EXCEPT
                !.pc = IF uncompressed_count = 0 \/ dry_run
                       THEN "returned" ELSE "batching",
                !.dry_run = dry_run,
                !.batch_size = batch_size,
                !.uncompressed_count = uncompressed_count]
    /\ UNCHANGED <<doc_vars, migrate_frame>>

\* json.loads and compress_json over the texts an untagged row can hold
\* (lines 135-136), computed once for each text
UntaggedTexts == LegacyTexts \ {SqlNull}
Loaded == [text \in UntaggedTexts |-> json_loads(text).ok]
Recompressed ==
    [text \in UntaggedTexts |-> IF Loaded[text] THEN Recompress(text) ELSE text]

\* lines 122-151: one turn of the loop, and what follows the break
MigrateBatch ==
    /\ migrate.pc = "batching"
    /\ LET todo == {r \in snapshot_rows : NeedsCompression(r)}
       IN  \E rows \in SUBSET todo :
            /\ Cardinality(rows) = Min(migrate.batch_size, Cardinality(todo))
            /\ LET valid == {r \in rows : Loaded[r.clusters_json]}
                   updated == {[r EXCEPT !.clusters_json = Recompressed[@]] : r \in valid}
               IN  IF rows = {}
                   THEN /\ migrate' = [migrate EXCEPT
                                !.pc = "returned",
                                !.selects = Min(@ + 1, MaxSelects),
                                !.odd = ~@,
                                !.vacuumed = TRUE]
                        /\ UNCHANGED snapshot_rows
                   ELSE /\ snapshot_rows' = (snapshot_rows \ valid) \cup updated
                        /\ migrate' = [migrate EXCEPT
                                !.processed = @ + Cardinality(valid),
                                !.errors = Min(@ + Cardinality(rows \ valid), MaxErrors),
                                !.selects = Min(@ + 1, MaxSelects),
                                !.odd = ~@]
    /\ UNCHANGED <<price_rows, written, priced, migration, migrate_frame>>

NextMigration ==
    \/ StoreBefore
    \/ MigrateStart
    \/ MigrateBatch

SpecMigration == Init /\ [][NextMigration]_vars

\* the script runs its loop: a turn that can be taken is taken
SpecMigrationFair == Init /\ [][NextMigration]_vars /\ WF_vars(MigrateBatch)

\* =========================================================================
\* Part XII: the wallet registry over the cycles of the collector
\* =========================================================================
\* run_continuous of src/collector.py, of each cycle the lines 40-50 that
\* build the wallet set: a new WalletDiscovery, load_from_file, the backfill
\* and the save when fewer than 50 addresses are known, get_wallets.  The
\* clock is seen_clock, in minutes, and stays at its bound once it is there.
collect_frame ==
    <<rate_vars, agg_vars, data_vars, store_vars, doc_vars, cycle_vars, retry_vars,
      validation_vars, batch_vars, migrate_vars>>

\* --interval 21600 and --interval 43200, in minutes
CycleIntervals == {HalfDay \div 2, HalfDay}

\* datetime.min
DatetimeMin == -1000000

\* the 50 addresses the venue's recent trades name, and the n-th of them
HexDigits == <<"0", "1", "2", "3", "4", "5", "6", "c">>
User(n) == <<HexDigits[((n - 1) \div 8) + 1], HexDigits[((n - 1) % 8) + 1]>>

\* the answer to recentTrades that names the first k addresses, two a trade
RecentTrades(k) == [i \in 1..(k \div 2) |-> [users |-> <<User(2 * i - 1), User(2 * i)>>]]

\* how many addresses the answers of one backfill name: never none
Reported == {2, BACKFILL_THRESHOLD - 2, BACKFILL_THRESHOLD}

\* wallet_discovery.py 166-177: what save_to_file writes at time t
save_to_file(d, t) ==
    [exists |-> TRUE,
     wallets |-> d.active_wallets,
     last_seen |-> [k \in DOMAIN d.wallet_last_seen |-> isoformat(d.wallet_last_seen[k])],
     trade_counts |-> d.wallet_trade_count,
     saved_at |-> isoformat(t)]

\* wallet_discovery.py 179-198: the instance after load_from_file
load_from_file(d, file) ==
    IF ~file.exists THEN d
    ELSE [d EXCEPT
            !.active_wallets = file.wallets,
            !.wallet_last_seen =
                [k \in DOMAIN file.last_seen |-> fromisoformat(file.last_seen[k])],
            !.wallet_trade_count = file.trade_counts]

\* line 145: cutoff = datetime.now() - timedelta(hours=max_age_hours)
Cutoff(t, max_age_hours) == t - max_age_hours * 60

\* wallet_discovery.py 143-151: get_wallets(min_trades, max_age_hours) at t
get_wallets(d, min_trades, max_age_hours, t) ==
    {wallet \in d.active_wallets :
        /\ Get(d.wallet_trade_count, wallet, 0) >= min_trades
        /\ Get(d.wallet_last_seen, wallet, DatetimeMin) > Cutoff(t, max_age_hours)}

\* bound: the trade counts that are told apart; a count stays at the bound
\* once it is there
MaxCounted == 2
Counted(d) ==
    [d EXCEPT !.wallet_trade_count = [k \in DOMAIN @ |-> Min(@[k], MaxCounted)]]

\* asyncio.run(run_continuous(args.interval, verbose))
RunCollector ==
    /\ collect.pc = "off"
    /\ \E interval \in CycleIntervals :
        collect' = [collect EXCEPT !.pc = "load", !.interval = interval]
    /\ UNCHANGED <<discovery_vars, collect_frame>>

\* lines 41-44
CollectLoad ==
    /\ collect.pc = "load"
    /\ discovery' = load_from_file(NewDiscovery, wallets_json)
    /\ collect' = [collect EXCEPT
            !.pc = IF NeedsBackfill(Cardinality(discovery'.active_wallets))
                   THEN "backfill" ELSE "select",
            !.asked = FALSE,
            !.wallets = {}]
    /\ UNCHANGED <<seen_clock, wallets_json, added, ws, collect_frame>>

\* lines 47-48: the venue answers with recent trades; save_to_file
CollectBackfill ==
    /\ collect.pc = "backfill"
    /\ \E k \in Reported :
        /\ discovery' =
            Counted(discover_from_trades(discovery, RecentTrades(k), seen_clock))
        /\ wallets_json' = save_to_file(discovery', seen_clock)
    /\ collect' = [collect EXCEPT !.pc = "select", !.asked = TRUE]
    /\ UNCHANGED <<seen_clock, added, ws, collect_frame>>

\* line 50: wallets = discovery.get_wallets(max_age_hours=24)
CollectSelect ==
    /\ collect.pc = "select"
    /\ collect' = [collect EXCEPT
            !.pc = "sleep",
            !.wallets = get_wallets(discovery, 1, 24, seen_clock)]
    /\ UNCHANGED <<discovery_vars, collect_frame>>

\* line 104: await asyncio.sleep(interval_seconds), and "while True"
CollectSleep ==
    /\ collect.pc = "sleep"
    /\ seen_clock' = Min(seen_clock + collect.interval, MaxHalfDays * HalfDay)
    /\ collect' = [collect EXCEPT !.pc = "load"]
    /\ UNCHANGED <<discovery, wallets_json, added, ws, collect_frame>>

NextSelection ==
    \/ RunCollector
    \/ CollectLoad
    \/ CollectBackfill
    \/ CollectSelect
    \/ CollectSleep

SpecSelection == Init /\ [][NextSelection]_vars

\* the collector is started and its loop runs: the awaits of a cycle end
SpecSelectionFair == Init /\ [][NextSelection]_vars /\ WF_vars(NextSelection)

\* =========================================================================
\* Claims
\* =========================================================================
Range(seq) == {seq[i] : i \in 1..Len(seq)}

RECURSIVE Reverse(_)
Reverse(seq) == IF seq = <<>> THEN <<>> ELSE Append(Reverse(Tail(seq)), Head(seq))

\* ------------------------------------------------------------ C1, C2, C3
\* requests client c posted in the window of one second that starts at t
RECURSIVE SentFrom(_, _, _)
SentFrom(c, t, n) ==
    IF n = 0 \/ t > MaxTime THEN 0 ELSE sent[c][t] + SentFrom(c, t + 1, n - 1)

WindowDiscipline(c) ==
    \A t \in 0..MaxTime : SentFrom(c, t, Window) <= API_REQUESTS_PER_SECOND

\* any two requests of client c are posted at least 100 ms apart
SpacingDiscipline(c) ==
    \A t \in 0..MaxTime :
        /\ sent[c][t] <= 1
        /\ \A u \in 0..MaxTime :
            (t < u /\ sent[c][t] > 0 /\ sent[c][u] > 0) => u - t >= MinSpacing

\* C1: during a wallet scan every window of one second holds at most
\* API_REQUESTS_PER_SECOND posts of the scanner's client, and any two posts
\* are at least 100 ms apart.
C1_RateDiscipline == WindowDiscipline("scanner1") /\ SpacingDiscipline("scanner1")

\* C1, the window alone
C1_WindowOnly == WindowDiscipline("scanner1")

\* C2: on a client the requests admitted and not yet completed never exceed
\* API_REQUESTS_PER_SECOND, and every permit is either free or held by one
\* of them, whatever way the requests before ended.
C2_PermitsBounded ==
    \A c \in Clients :
        /\ Held(api[c]) <= API_REQUESTS_PER_SECOND
        /\ api[c].permits >= 0
        /\ api[c].permits + Held(api[c]) = API_REQUESTS_PER_SECOND

\* a request failed on the network, its permit was taken by a waiting task,
\* all permits are held again and another task still waits
C2_Witness ==
    /\ outcome[Standalone] = "network"
    /\ Held(api[Standalone]) = API_REQUESTS_PER_SECOND
    /\ api[Standalone].waiters > 0

\* info requests in flight in the process, whoever posted them
InFlight ==
    LET RECURSIVE Posts(_)
        Posts(C) == IF C = {} THEN 0
                    ELSE LET c == CHOOSE x \in C : TRUE
                         IN  api[c].in_post + Posts(C \ {c})
    IN  Posts(Clients)
        + (IF backfill.pc = "post" THEN 1 ELSE 0)
        + (IF fetcher = "post" THEN 1 ELSE 0)

\* C3: the info requests in flight in one process, from all its scanners,
\* the backfill and the market-data fetcher, never exceed
\* API_REQUESTS_PER_SECOND.
C3_SharedBudget == InFlight <= API_REQUESTS_PER_SECOND

\* ------------------------------------------------------------------- C4
\* floor(((p - current_price) / current_price) * 100 / B)
FloorBucket(price, reference_price) ==
    ((price - reference_price) * BucketScale) \div reference_price

\* C4: every level price p is assigned the bucket floor(((p - current_price)
\* / current_price) * 100 / B) and lies in the price range of its bucket,
\* [low, high), below the current price as well as above it.
C4_BucketHoldsPrice ==
    current_price > 0 =>
        \A i \in 1..Len(levels) :
            LET p == levels[i].price
                b == price_to_bucket(p, current_price)
                r == bucket_to_price_range(b, current_price)
            IN  /\ b = FloorBucket(p, current_price)
                /\ r.low <= p * Fine
                /\ p * Fine < r.high

\* ------------------------------------------------------------------- C5
Mapped == liq_map # NoMap /\ current_price > 0

\* C5: when every long level lies below the current price no long cluster
\* reaches above it, and when every short level lies above the current
\* price no short cluster reaches below it.
C5_ClustersOnTheirSide ==
    Mapped =>
        /\ (\A l \in Range(SideLevels(levels, "long")) : l.price < current_price)
            => \A c \in Range(liq_map.long_liquidations) :
                    c.price_high <= current_price * Fine
        /\ (\A l \in Range(SideLevels(levels, "short")) : l.price > current_price)
            => \A c \in Range(liq_map.short_liquidations) :
                    c.price_low >= current_price * Fine

\* ------------------------------------------------------------------- C6
ClusterList(side) ==
    IF side = "long" THEN liq_map.long_liquidations ELSE liq_map.short_liquidations

TotalAtRisk(side) ==
    IF side = "long" THEN liq_map.total_long_at_risk_usd
    ELSE liq_map.total_short_at_risk_usd

\* the levels of a side that share the bucket of level l
Companions(l) ==
    SelectSeq(levels, LAMBDA m :
        /\ m.side = l.side
        /\ price_to_bucket(m.price, current_price)
            = price_to_bucket(l.price, current_price))

\* the levels of a side whose bucket passes the $10k floor
Contributing(side) ==
    SelectSeq(levels, LAMBDA l :
        l.side = side /\ SumSize(Companions(l)) >= DustFloor)

RECURSIVE SumCount(_)
SumCount(cs) == IF cs = <<>> THEN 0 ELSE Head(cs).position_count + SumCount(Tail(cs))

\* C6: for each side, total_at_risk is the sum of the side's cluster totals,
\* which is the sum of size_usd over the side's levels in buckets of at
\* least $10,000: each such level is counted once, no other level is, and
\* every level of at least $10,000 is among them.
C6_TotalsPartition ==
    Mapped =>
        \A side \in Sides :
            /\ TotalAtRisk(side) = SumTotal(ClusterList(side))
            /\ SumTotal(ClusterList(side)) = SumSize(Contributing(side))
            /\ SumCount(ClusterList(side)) = Len(Contributing(side))
            /\ \A c \in Range(ClusterList(side)) : c.side = side
            /\ \A l \in Range(SideLevels(levels, side)) :
                    l.size_usd >= DustFloor => l \in Range(Contributing(side))

BucketWidth == 2 * current_price

IsMerged(c) == c.price_high - c.price_low > BucketWidth

\* a long cluster merged from two buckets, a long level lost to the floor,
\* and a short cluster beside them
C6_Witness ==
    /\ Mapped
    /\ \E c \in Range(liq_map.long_liquidations) : IsMerged(c)
    /\ liq_map.total_long_at_risk_usd < SumSize(SideLevels(levels, "long"))
    /\ liq_map.short_liquidations # <<>>

\* ------------------------------------------------------------------- C7
\* the clusters of a side in increasing price_center
Ascending(side) ==
    IF side = "long" THEN Reverse(liq_map.long_liquidations)
    ELSE liq_map.short_liquidations

Small(c) == c.total_size_usd < MIN_CLUSTER_SIZE_USD

\* gap% = (c'.low - c.high) / c.center * 100 < CLUSTER_MERGE_PERCENT
GapBelowMerge(c, d) == (d.price_low - c.price_high) * MergeScale < c.price_center

\* C7: in the merge output no two neighbouring clusters are both below
\* MIN_CLUSTER_SIZE_USD with a gap below CLUSTER_MERGE_PERCENT.
C7_NoMergeablePair ==
    Mapped =>
        \A side \in Sides :
            LET cs == Ascending(side)
            IN  \A i \in 1..(Len(cs) - 1) :
                    ~(Small(cs[i]) /\ Small(cs[i + 1]) /\ GapBelowMerge(cs[i], cs[i + 1]))

\* two small neighbours that the gap alone keeps apart, one of them merged
C7_Witness ==
    /\ Mapped
    /\ \E side \in Sides :
        LET cs == Ascending(side)
        IN  \E i \in 1..(Len(cs) - 1) :
                /\ Small(cs[i]) /\ Small(cs[i + 1])
                /\ IsMerged(cs[i]) \/ IsMerged(cs[i + 1])

\* ------------------------------------------------------------------- C8
\* C8: every candidate cluster of at least MIN_CLUSTER_SIZE_USD is in the
\* merge output with the same range, total and count.
C8_SignificantKept ==
    Mapped =>
        \A side \in Sides :
            \A c \in Range(CandidateClusters(SideLevels(levels, side), current_price, side)) :
                ~Small(c) => c \in Range(ClusterList(side))

\* a significant cluster between two small ones, both within the merge gap
C8_Witness ==
    /\ Mapped
    /\ \E side \in Sides :
        LET cs == Ascending(side)
        IN  \E i \in 2..(Len(cs) - 1) :
                /\ ~Small(cs[i]) /\ ~IsMerged(cs[i])
                /\ Small(cs[i - 1]) /\ GapBelowMerge(cs[i - 1], cs[i])
                /\ Small(cs[i + 1]) /\ GapBelowMerge(cs[i], cs[i + 1])

\* ------------------------------------------------------------------- C9
\* C9: nearest_long_cluster is present exactly when a long cluster is
\* significant and is then the significant long cluster of largest
\* price_center; nearest_short_cluster likewise, of smallest price_center.
C9_NearestIsNearest ==
    Mapped =>
        /\ (liq_map.nearest_long_cluster # NoCluster)
            <=> (\E c \in Range(liq_map.long_liquidations) : ~Small(c))
        /\ liq_map.nearest_long_cluster # NoCluster =>
            /\ liq_map.nearest_long_cluster \in Range(liq_map.long_liquidations)
            /\ ~Small(liq_map.nearest_long_cluster)
            /\ \A c \in Range(liq_map.long_liquidations) :
                ~Small(c) => c.price_center <= liq_map.nearest_long_cluster.price_center
        /\ (liq_map.nearest_short_cluster # NoCluster)
            <=> (\E c \in Range(liq_map.short_liquidations) : ~Small(c))
        /\ liq_map.nearest_short_cluster # NoCluster =>
            /\ liq_map.nearest_short_cluster \in Range(liq_map.short_liquidations)
            /\ ~Small(liq_map.nearest_short_cluster)
            /\ \A c \in Range(liq_map.short_liquidations) :
                ~Small(c) => c.price_center >= liq_map.nearest_short_cluster.price_center

\* a small long cluster lies nearer to the price than the nearest significant
\* one: the nearest long cluster is not the first of its list
C9_Witness ==
    /\ Mapped
    /\ liq_map.nearest_long_cluster # NoCluster
    /\ Small(liq_map.long_liquidations[1])
    /\ liq_map.short_liquidations # <<>>
    /\ liq_map.nearest_short_cluster = NoCluster

\* ------------------------------------------------------------------ C10
\* C10: long_liquidations is in strictly decreasing price_center and
\* short_liquidations in strictly increasing price_center, and the price
\* ranges of the clusters of one side do not overlap.
C10_StrictOrder ==
    Mapped =>
        /\ \A i \in 1..(Len(liq_map.long_liquidations) - 1) :
            /\ liq_map.long_liquidations[i].price_center
                > liq_map.long_liquidations[i + 1].price_center
            /\ liq_map.long_liquidations[i].price_low
                >= liq_map.long_liquidations[i + 1].price_high
        /\ \A i \in 1..(Len(liq_map.short_liquidations) - 1) :
            /\ liq_map.short_liquidations[i].price_center
                < liq_map.short_liquidations[i + 1].price_center
            /\ liq_map.short_liquidations[i].price_high
                <= liq_map.short_liquidations[i + 1].price_low

\* two long clusters, one of them merged, and two short clusters
C10_Witness ==
    /\ Mapped
    /\ Len(liq_map.long_liquidations) >= 2
    /\ \E c \in Range(liq_map.long_liquidations) : IsMerged(c)
    /\ liq_map.short_liquidations # <<>>

\* ------------------------------------------------------------ C11 .. C16
\* how often x is in seq
Occ(seq, x) == Cardinality({i \in 1..Len(seq) : seq[i] = x})

Returned(k) == scan_call[k].pc = "returned"

\* the encodings of "no liquidation price"
NoPriceEncodings == {Absent, JsonNull, "null"}

NonDust(body) == SelectSeq(body, LAMBDA q : q.szi # 0)

\* the wallet query failed: the request raised, the status was not 200, the
\* body was no JSON, or a liquidationPx in it is text that is no number
QueryFailed(r) ==
    \/ r.kind # "ok"
    \/ \E q \in Range(NonDust(r.assetPositions)) :
            q.liquidationPx \notin NoPriceEncodings \cup {""} \cup DOMAIN FloatText

\* the positions the query for wallet w of call k returned
ReturnedPositions(k, w) == get_user_positions(scan_call[k].raw[w], w)

Wallets(k) == 1..scan_call[k].total

Kept(p) == p.notional_value >= MIN_POSITION_VALUE_USD
Levelled(p) == Kept(p) /\ p.liquidation_price # None

\* level l is the level of position p
LevelFor(l, p) ==
    /\ l.wallet = p.wallet /\ l.coin = p.coin /\ l.leverage = p.leverage
    /\ l.size_usd = p.notional_value
    /\ l.side \in Sides
    /\ (l.side = "long") <=> (p.size > 0)
    /\ Some(l.price) = p.liquidation_price

\* the positions the queries for wallets 1..w of call k returned
RECURSIVE AllReturned(_, _)
AllReturned(k, w) ==
    IF w = 0 THEN <<>> ELSE AllReturned(k, w - 1) \o ReturnedPositions(k, w)

\* C11: of the positions a successful wallet query returned, those of
\* notional >= MIN_POSITION_VALUE_USD and no others are counted and indexed
\* by their asset, and one level is emitted for each kept position that has
\* a liquidation price and for no other; the level is long iff the size is
\* positive and has the position's notional, wallet, asset and leverage.
C11_KeptAndLevelled ==
    \A k \in Callers : Returned(k) =>
        LET res == scan_call[k].result
            all == AllReturned(k, scan_call[k].total)
        IN  /\ \A w \in Wallets(k) : \A p \in Range(ReturnedPositions(k, w)) :
                LET n == Occ(ReturnedPositions(k, w), p)
                IN  /\ Occ(res.positions_by_coin[p.coin], p) = IF Kept(p) THEN n ELSE 0
                    /\ \A c \in PositionCoins \ {p.coin} :
                            Occ(res.positions_by_coin[c], p) = 0
                    /\ Cardinality({i \in 1..Len(res.liquidation_levels) :
                                        LevelFor(res.liquidation_levels[i], p)})
                            = IF Levelled(p) THEN n ELSE 0
            /\ res.total_positions_found = Len(SelectSeq(all, Kept))
            /\ Len(res.liquidation_levels) = Len(SelectSeq(all, Levelled))

\* a scan returned a position of exactly the threshold with its level, a
\* position below the threshold and a kept position without a price
C11_Witness ==
    /\ Returned(1)
    /\ \E w \in Wallets(1) : \E p \in Range(ReturnedPositions(1, w)) :
            p.notional_value = MIN_POSITION_VALUE_USD /\ Levelled(p)
    /\ \E w \in Wallets(1) : \E p \in Range(ReturnedPositions(1, w)) : ~Kept(p)
    /\ \E w \in Wallets(1) : \E p \in Range(ReturnedPositions(1, w)) :
            Kept(p) /\ ~Levelled(p) /\ p.size < 0
    /\ Len(scan_call[1].result.liquidation_levels) = 1

\* the positions of wallet w in the result of call k
ResultPositions(k, w) ==
    LET RECURSIVE Of(_)
        Of(C) == IF C = {} THEN <<>>
                 ELSE LET c == CHOOSE x \in C : TRUE
                      IN  SelectSeq(scan_call[k].result.positions_by_coin[c],
                                    LAMBDA p : p.wallet = w) \o Of(C \ {c})
    IN  Of(PositionCoins)

ResultLevels(k, w) ==
    SelectSeq(scan_call[k].result.liquidation_levels, LAMBDA l : l.wallet = w)

\* C12: a position whose liquidationPx is absent, JSON null or the string
\* "null" is decoded with no liquidation price and yields no level, and is
\* kept and counted when its notional passes the threshold.
C12_NoPriceNoLevel ==
    \A k \in Callers : Returned(k) =>
        \A w \in Wallets(k) : ~QueryFailed(scan_call[k].raw[w]) =>
            LET body == NonDust(scan_call[k].raw[w].assetPositions)
                decoded == ReturnedPositions(k, w)
                Passes(q) == Abs(q.positionValue) >= MIN_POSITION_VALUE_USD
                Priced(q) == Passes(q) /\ q.liquidationPx \notin NoPriceEncodings \cup {""}
            IN  /\ Len(decoded) = Len(body)
                /\ \A i \in 1..Len(body) :
                        body[i].liquidationPx \in NoPriceEncodings =>
                            /\ decoded[i].liquidation_price = None
                            /\ Passes(body[i]) =>
                                    decoded[i] \in Range(ResultPositions(k, w))
                /\ Len(ResultLevels(k, w)) = Len(SelectSeq(body, Priced))

\* one wallet holds a position with JSON null beside a priced one, the other
\* a position with the string "null"; both are kept, one level is emitted
C12_Witness ==
    /\ Returned(1)
    /\ scan_call[1].total = 2
    /\ \A w \in Wallets(1) : scan_call[1].raw[w].kind = "ok"
    /\ \E q \in Range(scan_call[1].raw[1].assetPositions) : q.liquidationPx = JsonNull
    /\ \E q \in Range(scan_call[1].raw[2].assetPositions) : q.liquidationPx = "null"
    /\ scan_call[1].result.total_positions_found = 3
    /\ Len(scan_call[1].result.liquidation_levels) = 1

\* C13: no level a scan emits has a liquidation price <= 0, a leverage
\* outside [1, 200] or a size above $1 B.
C13_InvalidDropped ==
    \A k \in Callers : Returned(k) =>
        \A l \in Range(scan_call[k].result.liquidation_levels) :
            /\ l.price > 0
            /\ MIN_LEVERAGE <= l.leverage /\ l.leverage <= MAX_LEVERAGE
            /\ l.size_usd <= MAX_POSITION_SIZE_USD

\* a call has issued wallet queries and has neither returned nor aborted
Scanning(k) == scan_call[k].pc \in {"gather", "sleep"}

\* C14: on one scanner at most one call of scan_wallets is past the lock;
\* a call that waits has issued no query; the lock is held exactly while a
\* call is past it, so after a return or an abort it is free and its first
\* waiter can start.
C14_OneScanAtATime ==
    /\ \A j, k \in Callers : (Scanning(j) /\ Scanning(k)) => j = k
    /\ \A k \in Callers : scan_call[k].pc = "waiting" =>
            /\ scan_call[k].raw = <<>>
            /\ k \in Range(scan_lock.waiters)
    /\ scan_lock.locked <=> \E k \in Callers : Scanning(k)
    /\ (~scan_lock.locked /\ scan_lock.waiters # <<>>)
            => scan_call[Head(scan_lock.waiters)].pc = "waiting"

\* the first call was aborted after it had issued queries; the second call,
\* which had waited for the lock, has issued its queries since
C14_Witness ==
    /\ scan_call[1].pc = "aborted"
    /\ scan_call[1].raw # <<>>
    /\ scan_call[2].waited
    /\ Scanning(2)
    /\ \E w \in Wallets(2) : scan_call[2].raw[w] # NoResponse

\* the accumulator without what wallet w put into it
Others(acc, w) ==
    [positions_by_coin |->
        [c \in PositionCoins |->
            SelectSeq(acc.positions_by_coin[c], LAMBDA p : p.wallet # w)],
     liquidation_levels |-> SelectSeq(acc.liquidation_levels, LAMBDA l : l.wallet # w)]

\* C15: a scan with a failed wallet query goes on to its result; the failed
\* wallet has no position and no level in it, and what the other wallets
\* have in it is what they would have with any other answer for that wallet.
C15_FailureIsolated ==
    \A k \in Callers :
        /\ scan_call[k].pc # "aborted"
        /\ Returned(k) =>
            /\ scan_call[k].result # NoResult
            /\ \A w \in Wallets(k) : QueryFailed(scan_call[k].raw[w]) =>
                /\ ResultPositions(k, w) = <<>>
                /\ ResultLevels(k, w) = <<>>
                /\ \A r \in Responses :
                    Others(ProcessResults(NewAccumulator,
                                [scan_call[k].raw EXCEPT ![w] = r],
                                1, scan_call[k].total), w)
                        = Others(scan_call[k].result, w)

\* the first wallet's answer could not be decoded after one position had
\* been, the second wallet's query succeeded: its level is in the result
C15_Witness ==
    /\ Returned(1)
    /\ scan_call[1].total = 2
    /\ scan_call[1].raw[1].kind = "ok"
    /\ QueryFailed(scan_call[1].raw[1])
    /\ Len(scan_call[1].raw[1].assetPositions) = 2
    /\ Len(ResultLevels(1, 2)) = 1

\* C16: the error count of a ScanResult is the number of wallets of the
\* scan whose query failed.
C16_ErrorsCounted ==
    \A k \in Callers : Returned(k) =>
        scan_call[k].result.errors
            = Cardinality({w \in Wallets(k) : QueryFailed(scan_call[k].raw[w])})

\* ------------------------------------------------------------ C17 .. C20
\* the time a stored timestamp denotes, and the age of a row now
TimeOf(text) == Stamp(text[1], text[3], text[4])
Age(r) == clock - TimeOf(r.timestamp)
SameDay(r, s) == r.coin = s.coin /\ r.timestamp[1] = s.timestamp[1]
SameHour(r, s) == SameDay(r, s) /\ r.timestamp[3] = s.timestamp[3]

Fresh(r) == Age(r) <= Days(1)
HourlyTier(r) == Days(1) < Age(r) /\ Age(r) <= Days(7)
DailyTier(r) == Days(7) < Age(r) /\ Age(r) <= Days(30)

\* the retention policy keeps row r
PolicyKeeps(r) ==
    \/ Fresh(r)
    \/ HourlyTier(r) /\ r.timestamp[4] = 0
    \/ DailyTier(r) /\ r.timestamp[3] = 12

\* C17: after a maintenance run every snapshots row is at most a day old,
\* or at most 7 days old and stamped minute 00, or at most 30 days old and
\* stamped hour 12.
C17_RetentionTiers ==
    maintained => \A r \in snapshots : PolicyKeeps(r)

\* C18: a maintenance run deletes no snapshots or price_history row that
\* the policy keeps, and no liquidation_events row.
C18_OnlyCondemnedDeleted ==
    maintained =>
        /\ \A r \in before.snapshots : PolicyKeeps(r) => r \in snapshots
        /\ \A r \in before.price_history : PolicyKeeps(r) => r \in price_history
        /\ liquidation_events = before.liquidation_events

\* C19: after a maintenance run every asset has, for a day aged 7 to 30
\* days, at most one snapshots row, stamped 12:00.
C19_OneRowPerDay ==
    maintained =>
        \A r \in snapshots : DailyTier(r) =>
            /\ r.timestamp[3] = 12 /\ r.timestamp[4] = 0
            /\ \A s \in snapshots : (DailyTier(s) /\ SameDay(r, s)) => s = r

\* C20: after a maintenance run, an hour aged 1 to 7 days in which a
\* snapshot was stored still has a snapshot, and so has a day aged 7 to 30
\* days in which a snapshot was stored.
C20_GranularityKept ==
    maintained =>
        \A r \in stored :
            /\ HourlyTier(r) => \E s \in snapshots : SameHour(r, s)
            /\ DailyTier(r) => \E s \in snapshots : SameDay(r, s)

\* C21: a dry run of the maintenance leaves the three tables as it found
\* them, and the three counts it prints are the numbers of snapshots rows
\* the three steps of a live run at the same instant delete.
C21_DryRunReadsOnly ==
    report.mode = "dry" =>
        /\ Tables = before
        /\ LET step1 == DeleteOld(snapshots, clock)
               step2 == DownsampleDaily(step1, clock)
               step3 == DownsampleHourly(step2, clock)
           IN  /\ report.old_count = Cardinality(snapshots \ step1)
               /\ report.downsample_count = Cardinality(step1 \ step2)
               /\ report.hourly_count = Cardinality(step2 \ step3)

C21_Witness ==
    /\ report.mode = "dry"
    /\ report.old_count > 0
    /\ report.hourly_count > 1
    /\ price_history # {}
    /\ liquidation_events # {}

\* ---------------------------------------------------------- C22, C23, C24
OneRowPerKey(rows) == \A r, s \in rows : KeyOf(r) = KeyOf(s) => r = s

C22_LatestValues ==
    /\ OneRowPerKey(snapshot_rows)
    /\ OneRowPerKey(price_rows)
    /\ \A k \in DocKeys :
        written[k].written =>
            \E r \in snapshot_rows :
                KeyOf(r) = k /\ r.clusters_json = compress_json(written[k].clusters)
    /\ \A k \in DocKeys :
        priced[k] # 0 => \E r \in price_rows : KeyOf(r) = k /\ r.price = priced[k]

C22_OtherKeysUntouched ==
    /\ \A r \in snapshot_rows :
        written'[KeyOf(r)] = written[KeyOf(r)] => r \in snapshot_rows'
    /\ \A r \in price_rows :
        priced'[KeyOf(r)] = priced[KeyOf(r)] => r \in price_rows'

\* C22: after any sequence of store_snapshot and store_prices calls each table
\* holds at most one row per (timestamp, asset), the row of a written pair
\* carries what the latest call that wrote the pair passed in, and a call
\* leaves the rows of the pairs it does not write as they were.
C22_OneRowPerKey == []C22_LatestValues /\ [][C22_OtherKeysUntouched]_vars

C22_Witness ==
    /\ \E k \in DocKeys : written[k].written /\ written[k].again
    /\ \E j, k \in DocKeys :
        /\ written[j].written /\ written[k].written
        /\ written[j].clusters # written[k].clusters
    /\ \E j, k \in DocKeys : priced[j] # 0 /\ priced[k] # 0 /\ priced[j] # priced[k]
    /\ Cardinality(snapshot_rows) = Cardinality(DocKeys)

\* C23: compress_json tags what it writes and decompress_json gives the
\* document back; a text without the tag is read as plain JSON; get_snapshots
\* returns, for a row store_snapshot wrote, the long and short arrays that
\* were passed in.
C23_RoundTrip ==
    /\ \A d \in Docs :
        /\ startswith(compress_json(d), COMPRESSION_MARKER)
        /\ decompress_json(compress_json(d)) = d
        /\ decompress_json(json_dumps(d)) = d
    /\ \A k \in DocKeys :
        written[k].written =>
            get_snapshots(k[2], k[1], k[1], 1)
                = <<[timestamp |-> k[1], coin |-> k[2],
                     clusters_json |-> written[k].clusters]>>
    /\ \A c \in DocCoins, limit \in {1, 1000} :
        LET got == get_snapshots(c, 1, 2, limit)
        IN  \A i \in DOMAIN got :
                written[<<got[i].timestamp, c>>].written =>
                    got[i].clusters_json = written[<<got[i].timestamp, c>>].clusters

C23_Witness ==
    \E c \in DocCoins :
        LET got == get_snapshots(c, 1, 2, 1000)
        IN  /\ Len(got) = 2
            /\ \E r \in snapshot_rows :
                r.coin = c /\ NeedsCompression(r) /\ json_loads(r.clusters_json).ok
            /\ \E t \in DocStamps :
                written[<<t, c>>].written /\ Len(written[<<t, c>>].clusters.long) = 2

ValidLegacy(rows) ==
    \A r \in rows : NeedsCompression(r) => json_loads(r.clusters_json).ok

\* C24: a live migration of a store whose untagged texts are valid JSON ends,
\* leaves every non-null clusters_json tagged and decoding to the document it
\* decoded to before, and leaves the rows that were tagged as they were; a
\* migration that finds every text tagged changes no row.
C24_MigrationKeepsDocuments ==
    (migration.mode = "live" /\ ValidLegacy(migration.before)) =>
        /\ migration.outcome \in {"vacuumed", "nothing to compress"}
        /\ \A r \in snapshot_rows :
            r.clusters_json # SqlNull => startswith(r.clusters_json, COMPRESSION_MARKER)
        /\ ~\E r \in snapshot_rows : NeedsCompression(r)
        /\ OneRowPerKey(snapshot_rows)
        /\ {KeyOf(r) : r \in snapshot_rows} = {KeyOf(b) : b \in migration.before}
        /\ \A b \in migration.before :
            \E r \in snapshot_rows :
                /\ KeyOf(r) = KeyOf(b)
                /\ decompress_json(r.clusters_json) = decompress_json(b.clusters_json)
                /\ ~NeedsCompression(b) => r = b
        /\ migration.outcome = "nothing to compress" =>
                snapshot_rows = migration.before

C24_Witness ==
    /\ migration.mode = "live"
    /\ migration.outcome = "vacuumed"
    /\ \E b \in migration.before : b.clusters_json = SqlNull
    /\ \E b \in migration.before : startswith(b.clusters_json, COMPRESSION_MARKER)
    /\ \E b \in migration.before :
        /\ NeedsCompression(b)
        /\ Len(decompress_json(b.clusters_json).long) = 2
    /\ ValidLegacy(migration.before)

\* C21, for the compression migration: a dry run leaves table snapshots as
\* it found it.
C21_MigrationDryRunReadsOnly ==
    migration.mode = "dry" => snapshot_rows = migration.before

C21_MigrationWitness ==
    /\ migration.mode = "dry"
    /\ migration.outcome = "estimated"

\* ---------------------------------------------------------- C25, C26, C27
Has(trace, step) == \E i \in 1..Len(trace) : trace[i] = step
Pos(trace, step) == CHOOSE i \in 1..Len(trace) : trace[i] = step
IsMainStep(step) == step \notin {"backfill", "save_registry"}
RowsOfCycle(n) == {r \in cycle_rows : r.cycle = n}

\* C25: a completed cycle went through load registry, select wallets, scan,
\* fetch mid prices, build maps and persist, in this order; it stored exactly
\* one snapshots row for each asset that has a map, each stamped with the
\* timestamp taken at the start of the cycle, and the latest-snapshot file
\* holds the same assets with the same maps.
C25_CycleOrderAndRows ==
    (loop.pc = "cycle" /\ cycle.pc = "return") =>
        /\ SelectSeq(cycle.trace, IsMainStep)
            = <<"load", "select", "scan", "prices", "build",
                "store_snapshot", "store_prices", "save_maps">>
        /\ \A m \in cycle.maps :
            Cardinality({r \in RowsOfCycle(cycle.n) : r.coin = m.coin}) = 1
        /\ \A r \in RowsOfCycle(cycle.n) :
            r.timestamp = cycle.timestamp /\ r.map \in cycle.maps
        /\ maps_file = {r.map : r \in RowsOfCycle(cycle.n)}
        /\ {m.coin : m \in maps_file} = {r.coin : r \in RowsOfCycle(cycle.n)}

C25_Witness ==
    /\ loop.pc = "cycle" /\ cycle.pc = "return"
    /\ cycle.n = 2
    /\ cycle.waited
    /\ Cardinality(cycle.maps) = 2
    /\ RowsOfCycle(1) # {}

\* C26: in continuous mode a cycle starts only when every cycle before it has
\* ended; a cycle that raised is followed by a pause of 30 s and a completed
\* one by a pause of the configured interval, after which the next cycle
\* starts; only an interrupt ends the loop; the rows of an asset stored by a
\* later cycle carry a later timestamp.
C26_LoopContinues ==
    loop.mode = "continuous" =>
        /\ \A i \in 1..Len(past) :
            past[i].pause = IF past[i].outcome = "failed" THEN ERROR_PAUSE
                            ELSE loop.interval
        /\ \A i \in 1..(Len(past) - 1) :
            /\ past[i + 1].timestamp = past[i].ended + past[i].pause
            /\ past[i].timestamp < past[i + 1].timestamp
        /\ loop.pc = "cycle" =>
            /\ Len(past) = cycle.n - 1
            /\ cycle.n > 1 =>
                cycle.timestamp = past[cycle.n - 1].ended + past[cycle.n - 1].pause
        /\ loop.pc = "sleep" =>
            /\ Len(past) = loop.cycle_count
            /\ loop.sleep = past[Len(past)].pause
        /\ loop.pc = "stopped" => loop.interrupted
        /\ \A r, s \in cycle_rows :
            (r.coin = s.coin /\ r.cycle < s.cycle) => r.timestamp < s.timestamp

C26_Witness ==
    /\ loop.mode = "continuous"
    /\ Len(past) = 2
    /\ past[1].outcome = "failed"
    /\ past[2].outcome = "completed"
    /\ \E r, s \in cycle_rows : r.coin = s.coin /\ r.cycle = 1 /\ s.cycle = 2

\* C27: a cycle backfills over the first 10 configured assets and then saves
\* the registry exactly when the registry it loaded holds fewer than 50
\* addresses or there is no registry file, and it does both before it selects
\* and scans wallets.
C27_BackfillBelowThreshold ==
    cycle.pc \notin {"none", "load"} =>
        LET below == cycle.seen = NoFile \/ cycle.seen < BACKFILL_THRESHOLD
            trace == cycle.trace
        IN  /\ below <=> (cycle.pc = "backfill" \/ Has(trace, "backfill"))
            /\ Has(trace, "backfill") => cycle.assets = BACKFILL_ASSETS
            /\ Has(trace, "save_registry") =>
                Pos(trace, "save_registry") = Pos(trace, "backfill") + 1
            /\ Has(trace, "select") =>
                (below <=> /\ Has(trace, "save_registry")
                           /\ Pos(trace, "save_registry") < Pos(trace, "select"))
            /\ (Has(trace, "scan") /\ below) =>
                Pos(trace, "save_registry") < Pos(trace, "scan")

C27_Witness ==
    /\ cycle.seen = BACKFILL_THRESHOLD - 1
    /\ Has(cycle.trace, "backfill")
    /\ Has(cycle.trace, "scan")
    /\ registry_file >= BACKFILL_THRESHOLD

\* ---------------------------------------------------------- C28, C29, C30
RECURSIVE Pow(_, _)
Pow(b, n) == IF n = 0 THEN 1 ELSE b * Pow(b, n - 1)

\* C28: with max_attempts = n the wrapped function is invoked at most n
\* times; when it first succeeds at attempt k the wrapper returns after
\* exactly k invocations; when all n attempts raise a retryable exception the
\* wrapper raises the exception of attempt n after exactly n invocations.
C28_AttemptsBounded ==
    LET n == retry.max_attempts
        k == retry.invocations
    IN  /\ k <= n
        /\ k = Len(retry.outcomes)
        /\ (retry.pc = "returned" /\ n >= 1) =>
            /\ retry.outcomes[k] = "returns"
            /\ \A i \in 1..(k - 1) : retry.outcomes[i] = "retryable"
            /\ retry.attempt = k
        /\ \A i \in 1..k :
            retry.outcomes[i] = "returns" => (i = k /\ retry.pc = "returned")
        /\ (n >= 1 /\ k = n /\ \A i \in 1..n : retry.outcomes[i] = "retryable") =>
            /\ retry.pc = "raised"
            /\ retry.raised = [kind |-> "retryable", attempt |-> n]
        /\ (retry.pc = "raised" /\ retry.raised.kind = "retryable") => k = n

C28_Witness ==
    /\ retry.pc = "raised"
    /\ retry.raised.kind = "retryable"
    /\ retry.max_attempts = 3
    /\ retry.invocations = 3
    /\ retry.wrapper = "retry_sync"

\* C29: an exception outside the retryable set is propagated by the attempt
\* that raised it, with no sleep and no attempt after it; raised by the first
\* attempt it is propagated after exactly one invocation and no sleep,
\* whatever max_attempts is.
C29_NonRetryablePropagates ==
    /\ \A i \in 1..Len(retry.outcomes) :
        retry.outcomes[i] = "other" =>
            /\ i = Len(retry.outcomes)
            /\ retry.invocations = i
            /\ retry.pc = "raised"
            /\ retry.raised = [kind |-> "other", attempt |-> i]
            /\ Len(retry.waits) = i - 1
    /\ (retry.outcomes # <<>> /\ retry.outcomes[1] = "other") =>
        /\ retry.invocations = 1
        /\ retry.waits = <<>>

C29_Witness ==
    /\ retry.pc = "raised"
    /\ retry.raised.kind = "other"
    /\ retry.invocations = 1
    /\ retry.max_attempts = 3
    /\ retry.wrapper = "retry_async"

\* C30: the k-th wait is min(initial_delay * base^(k-1), max_delay), with the
\* defaults no wait exceeds 30 s, and a finished call has waited once less
\* than it has invoked the function.
C30_WaitSchedule ==
    /\ \A k \in 1..Len(retry.waits) :
        /\ retry.waits[k] =
            Min(retry.policy.initial_delay * Pow(retry.policy.exponential_base, k - 1),
                retry.policy.max_delay)
        /\ retry.policy = DefaultPolicy => retry.waits[k] <= 30
    /\ (retry.pc \in {"returned", "raised"} /\ retry.invocations >= 1) =>
        Len(retry.waits) = retry.invocations - 1

\* C30, for the policies whose initial delay is within the cap
C30_ScheduleWithinCap ==
    retry.policy.initial_delay <= retry.policy.max_delay => C30_WaitSchedule

C30_ScheduleWithinCapWitness ==
    /\ retry.policy = DefaultPolicy
    /\ retry.pc = "raised"
    /\ Len(retry.waits) = 6
    /\ retry.waits[6] = 30

\* C31: under the default exceptions tuple a call that raises RateLimitError
\* or an APIError of 5xx status before its last attempt is attempted again
\* (the wrapper does not raise from that attempt), and a call that raises an
\* APIError of 4xx status is not attempted again.
C31_DefaultRetryClasses ==
    retry.exceptions = RETRYABLE_EXCEPTIONS =>
        \A i \in 1..Len(retry.thrown) :
            LET e == retry.thrown[i]
                propagated == /\ i = Len(retry.thrown)
                              /\ retry.pc = "raised"
                              /\ retry.raised.attempt = i
            IN  /\ ((\/ e.class = "RateLimitError"
                     \/ (e.class = "APIError" /\ e.status_code \in 500..599))
                    /\ i < retry.max_attempts) => ~propagated
                /\ (e.class = "APIError" /\ e.status_code \in 400..499)
                    => propagated

\* what _request raises to its caller for each way a request ends: nothing
\* for status 200, the plain Exception of line 81 (the status is part of
\* its message, it has no status_code) for another status, and the
\* exception of session.post itself when the post fails
RequestRaises(o) ==
    CASE o = "ok" -> NoThrow
      [] o = "status" -> [class |-> "Exception", status_code |-> 0]
      [] o = "network" -> [class |-> "ConnectionError", status_code |-> 0]
      [] OTHER -> NoThrow

\* the posts client c made so far
PostsOf(c) ==
    LET RECURSIVE Upto(_)
        Upto(t) == IF t < 0 THEN 0 ELSE sent[c][t] + Upto(t - 1)
    IN  Upto(MaxTime)

\* C32: a venue call whose post fails with a connection error or a timeout
\* is attempted again until three posts were made for it, and a response of
\* another status than 2xx makes _request raise an APIError.
C32_TransientReattempted ==
    /\ (calls = 1 /\ outcome[Standalone] = "network") =>
        \/ Held(api[Standalone]) + api[Standalone].waiters > 0
        \/ PostsOf(Standalone) = 3
    /\ \A c \in Clients :
        outcome[c] = "status" => RequestRaises(outcome[c]).class = "APIError"

\* C33: while the listener is not stopped it does not end, no frame is
\* processed on a connection before the subscription of every asset was
\* sent, and every loss of the connection, by an error or by a clean close,
\* leads to a new connection attempt (or to stop() being called).
C33_ListenerReconnects ==
    /\ [](discovery.running => ws.pc \notin {"returned", "raised"})
    /\ [](~ws.early)
    /\ ((discovery.running /\ ws.lost \in {"error", "close"})
            ~> (ws.pc = "connecting" \/ ~discovery.running))

\* C33, the parts the code keeps: every subscription is sent before the
\* first frame of a connection, and a clean close is followed at once by
\* the next connection attempt
C33_SubscribedBeforeFrames ==
    /\ ~ws.early
    /\ ws.pc = "listening" => ws.subscribed = Config.ASSETS
    /\ (discovery.running /\ ws.lost = "close") => ws.pc = "connecting"

\* C34: the k-th consecutive reconnect attempt is made after a sleep of
\* min(2^(k-1), 30) seconds: 1 s before the first, never more than 30 s.
C34_ReconnectBackoff ==
    \A i \in 1..Len(ws.delays) :
        /\ ws.delays[i].slept = Min(Pow(2, ws.delays[i].attempt - 1), 30)
        /\ ws.delays[i].slept <= 30

\* no capital letter in the address
IsLowerCase(a) == \A i \in 1..Len(a) : a[i] \notin {"A", "B", "C", "D"}

\* every entry of the registry: a lowercase address with a last_seen and
\* a trade count of 1 or more
EntriesSound ==
    \A w \in discovery.active_wallets :
        /\ IsLowerCase(w)
        /\ w \in DOMAIN discovery.wallet_last_seen
        /\ discovery.wallet_last_seen[w] <= seen_clock
        /\ Get(discovery.wallet_trade_count, w, 0) >= 1
        /\ \A a \in Addresses :
            Canonical(a) = w => (a = w \/ a \notin discovery.active_wallets)

\* what one call of add_wallet for a spelling of w does
AddEffect(w) ==
    /\ discovery'.active_wallets = discovery.active_wallets \cup {w}
    /\ discovery'.wallet_last_seen[w] = seen_clock
    /\ discovery'.wallet_trade_count[w] =
            Get(discovery.wallet_trade_count, w, 0) + 1
    /\ discovery'.returned = [is_new |-> w \notin discovery.active_wallets]

\* C35 as stated: add_wallet lowercases, stamps, counts and tells whether
\* the address is new, and every address of the active set is lowercase,
\* has a last_seen and a trade count that is the number of times it was
\* added.
C35_CountIsTimesAdded ==
    /\ EntriesSound
    /\ \A w \in discovery.active_wallets :
        Get(discovery.wallet_trade_count, w, 0) = Get(added.calls, w, 0)

\* C35, amended: the trade count is the number of add_wallet calls the
\* registry accounts for, where load_from_file takes the instance back to
\* the calls the file accounts for; it never exceeds the calls ever made.
C35_RegistryEntries ==
    /\ [](/\ EntriesSound
          /\ \A w \in discovery.active_wallets :
                /\ discovery.wallet_trade_count[w] = Get(added.held, w, 0)
                /\ discovery.wallet_trade_count[w] <= Get(added.calls, w, 0))
    /\ [][\A w \in {Canonical(a) : a \in Addresses} :
            (/\ added'.calls = Count(added.calls, <<w>>)
             /\ discovery'.returned # ReturnedNone
             /\ "is_new" \in DOMAIN discovery'.returned) => AddEffect(w)]_vars

\* two spellings of one address were added, the registry was saved, the
\* address added again and the file loaded: one entry, with the count the
\* file held
C35_Witness ==
    /\ discovery.active_wallets = {<<"a", "b">>}
    /\ Get(added.calls, <<"a", "b">>, 0) = 3
    /\ discovery.wallet_trade_count[<<"a", "b">>] = 2
    /\ wallets_json.exists
    /\ discovery.wallet_last_seen[<<"a", "b">>] < seen_clock

\* the arguments of the latest validator call break a hard limit the claim
\* names; a map breaks one when it lacks a required key
MapLacksKey(map) ==
    "long_liquidations" \notin DOMAIN map \/ "short_liquidations" \notin DOMAIN map
FieldLacking(f) == ~f.present \/ f.null
HardLimit(v, lacks_key) ==
    CASE v.call = "validate_price" -> v.price.null \/ v.price.value <= 0
      [] v.call = "validate_liquidation_cluster" ->
            v.size_usd > MAX_CLUSTER_SIZE_KUSD
      [] v.call = "validate_position" ->
            \/ v.size_usd > MAX_POSITION_SIZE_USD
            \/ v.leverage < 1 \/ v.leverage > 200
            \/ v.liquidation_price <= 0
      [] v.call = "validate_liquidation_map" -> lacks_key
      [] v.call = "validate_market_data" ->
            \/ FieldLacking(v.data.mark_price)
            \/ FieldLacking(v.data.funding_rate)
            \/ v.data.mark_price.value <= 0
      [] OTHER -> FALSE

\* they break a limit of the code the claim does not name: a cluster more
\* than 100% away from the price, a negative open interest or volume
OtherLimit(v) ==
    CASE v.call = "validate_liquidation_cluster" ->
            v.current_price > 0 /\ Abs(v.price_level - v.current_price) > v.current_price
      [] v.call = "validate_market_data" ->
            \/ (v.data.open_interest_usd.present /\ ~v.data.open_interest_usd.null
                /\ v.data.open_interest_usd.value < 0)
            \/ (v.data.volume_24h.present /\ ~v.data.volume_24h.null
                /\ v.data.volume_24h.value < 0)
      [] OTHER -> FALSE

OutsideBounds(coin, p) ==
    LET bounds == IF coin \in DOMAIN PRICE_BOUNDS THEN PRICE_BOUNDS[coin]
                  ELSE DEFAULT_PRICE_BOUNDS
    IN  p < bounds[1] \/ p > bounds[2]
WrongSide(map, price) ==
    \/ \E i \in 1..Len(map.long_liquidations) :
        GetOr0(map.long_liquidations[i], "price_center") > price
    \/ \E i \in 1..Len(map.short_liquidations) :
        GetOr0(map.short_liquidations[i], "price_center") < price

\* they break a soft bound the claim names
SoftBound(v) ==
    CASE v.call = "validate_price" ->
            ~v.price.null /\ OutsideBounds(v.coin, v.price.value)
      [] v.call = "validate_liquidation_cluster" ->
            v.size_usd < MIN_CLUSTER_SIZE_KUSD
      [] v.call = "validate_liquidation_map" ->
            ~MapLacksKey(v.liq_map) /\ WrongSide(v.liq_map, v.current_price)
      [] v.call = "validate_market_data" ->
            /\ ~FieldLacking(v.data.mark_price)
            /\ ~FieldLacking(v.data.funding_rate)
            /\ \/ OutsideBounds(v.coin, v.data.mark_price.value)
               \/ Abs(v.data.funding_rate.value) > 100
      [] OTHER -> FALSE

Validated(v, lacks_key) ==
    v.call # "none" =>
        /\ v.result.is_valid <=> v.result.errors = <<>>
        /\ HardLimit(v, lacks_key) =>
            ~v.result.is_valid /\ v.result.errors # <<>>
        /\ (SoftBound(v) /\ ~HardLimit(v, lacks_key) /\ ~OtherLimit(v)) =>
            v.result.is_valid /\ v.result.warnings # <<>>

\* C36 as stated: is_valid iff no errors; a hard-limit violation, a map
\* that lacks a required key included, gives an invalid result with an
\* error; a soft-bound violation alone gives a valid result with a warning.
C36_HardAndSoftLimits ==
    Validated(validation,
              validation.call = "validate_liquidation_map"
              /\ MapLacksKey(validation.liq_map))

\* C36, amended: the same, where the map that lacks a required key is not
\* the empty map, which is valid with the warning "Empty liquidation map".
C36_HardAndSoftLimitsNonEmpty ==
    Validated(validation,
              /\ validation.call = "validate_liquidation_map"
              /\ MapLacksKey(validation.liq_map)
              /\ DOMAIN validation.liq_map # {})

\* a map that holds one of the two required keys was found invalid
C36_Witness ==
    /\ validation.call = "validate_liquidation_map"
    /\ DOMAIN validation.liq_map = {"long_liquidations"}
    /\ ~validation.result.is_valid
    /\ validation.result.errors = <<"Missing 'short_liquidations'">>

\* a position with leverage 201 and nothing else wrong was found invalid
C36_LeverageWitness ==
    /\ validation.call = "validate_position"
    /\ validation.leverage = 201
    /\ validation.size_usd = 50000
    /\ validation.liquidation_price = 85000
    /\ ~validation.result.is_valid
    /\ validation.result.errors = <<"Invalid leverage">>

\* a price outside its bounds was found valid, with a warning
C36_SoftWitness ==
    /\ validation.call = "validate_market_data"
    /\ validation.coin = "BTC"
    /\ validation.data.mark_price = Float(2000000)
    /\ validation.data.funding_rate = Float(-150)
    /\ validation.result.is_valid
    /\ Len(validation.result.warnings) = 2

\* the wallets the batches gathered so far queried: 1..Queried, each once
\* when every batch begins where the one before it ended
Contiguous(log) ==
    \A k \in 1..Len(log) :
        /\ log[k].first = (IF k = 1 THEN 1 ELSE log[k - 1].last + 1)
        /\ log[k].first <= log[k].last
        /\ log[k].last - log[k].first + 1 <= API_REQUESTS_PER_SECOND
Queried(log) == IF log = <<>> THEN 0 ELSE log[Len(log)].last

\* C37: a scan queries the first min(|S|, MAX_WALLETS_TO_TRACK) wallets,
\* each once, in batches of at most API_REQUESTS_PER_SECOND; a batch is
\* gathered only after every query of the batch before it has ended and the
\* pause after it is over; the result reports min(|S|, MAX_WALLETS_TO_TRACK)
\* wallets.
C37_BatchesCoverTheCap ==
    LET want == Min(batches.size, MAX_WALLETS_TO_TRACK)
    IN  /\ Contiguous(batches.log)
        /\ Queried(batches.log) <= want
        /\ ~batches.early
        /\ batches.pc = "returned" =>
            /\ Queried(batches.log) = want
            /\ batches.out = 0
            /\ batches.result.total_wallets_scanned = want

\* a set of 5003 wallets was scanned: 500 batches, 5000 wallets
C37_Witness ==
    /\ batches.pc = "returned"
    /\ batches.size = MAX_WALLETS_TO_TRACK + 3
    /\ Len(batches.log) = 500
    /\ batches.result.total_wallets_scanned = MAX_WALLETS_TO_TRACK

\* ------------------------------------------------------------------ C38
\* the candidate clusters of a side in increasing price_center
Candidates(side) ==
    SortClusters(CandidateClusters(SideLevels(levels, side), current_price, side), 1)

\* cluster c is the merge of the candidates cands[1..r]
IsRunOf(c, cands, r) ==
    /\ c.price_low = cands[1].price_low
    /\ c.price_high = cands[r].price_high
    /\ c.price_center = (cands[1].price_low + cands[r].price_high) \div 2
    /\ c.total_size_usd = SumTotal(SubSeq(cands, 1, r))
    /\ c.position_count = SumCount(SubSeq(cands, 1, r))

\* the clusters are the merges of consecutive runs that use up the candidates
RECURSIVE MadeOfRuns(_, _)
MadeOfRuns(clusters, cands) ==
    IF clusters = <<>> THEN cands = <<>>
    ELSE \E r \in 1..Len(cands) :
            /\ IsRunOf(Head(clusters), cands, r)
            /\ MadeOfRuns(Tail(clusters), SubSeq(cands, r + 1, Len(cands)))

\* C38: every cluster of the merge output is the merge of a run of one or
\* more consecutive candidate clusters in increasing price_center: low of
\* the first, high of the last, centre their midpoint, size and count the
\* sums over the run; so the counts of a side's output add up to the number
\* of levels in the side's candidate buckets.
C38_OutputIsRunsOfCandidates ==
    Mapped =>
        \A side \in Sides :
            /\ MadeOfRuns(Ascending(side), Candidates(side))
            /\ SumCount(Ascending(side)) = SumCount(Candidates(side))
            /\ SumCount(Candidates(side)) = Len(Contributing(side))

\* a long cluster merged from a run of two candidates beside a long cluster
\* that is one candidate, with a long level lost to the floor
C38_Witness ==
    /\ Mapped
    /\ Len(Candidates("long")) = 3
    /\ Len(liq_map.long_liquidations) = 2
    /\ \E c \in Range(liq_map.long_liquidations) : c.position_count = 2
    /\ Len(SideLevels(levels, "long")) = 4

\* ------------------------------------------------------------------ C39
\* C39: the live compression migration ends on every store content: once
\* the batch loop is entered it reaches its end, also when an untagged row
\* holds a text that is not valid JSON.
C39_MigrationTerminates ==
    (migrate.pc = "batching") ~> (migrate.pc = "returned")

\* ------------------------------------------------------------------ C40
\* a cycle has just selected a wallet set that is not empty
SelectedSome == collect.pc = "sleep" /\ collect.wallets # {}

\* C40: in continuous mode, the venue reporting recent trades whenever it is
\* asked, the wallet set selected with max_age = 24 h does not become empty
\* and stay empty in all later cycles: again and again a cycle selects a
\* set that is not empty.
C40_SelectionNotEmptyForGood == []<>SelectedSome

=============================================================================
